---- MODULE Spec2Model ----
(***************************************************************************)
(* Model of the transaction-line parsing and classification engine of      *)
(* src/Bank_TXT_To_Excel.py (class BankStatementParser and the module-     *)
(* level helpers clean_text, normalize_text, parse_counterparty_info).     *)
(*                                                                         *)
(* Text is a sequence of characters.  A character is a one-element string; *)
(* ASCII printable characters stand for themselves, a CJK character is     *)
(* written by its code point ("u8f6c" is U+8F6C), and the characters the   *)
(* code treats specially are named ESC, C0, FFFD and ZW below.             *)
(***************************************************************************)
EXTENDS Integers, Sequences, FiniteSets, TLC

VARIABLES
    lines,                      \* self.lines: the loaded text lines
    src,                        \* ghost: how each line was written (see LineOf)
    bank_type,                  \* self.bank_type: the name of a BankType member
    confidence,                 \* self.confidence: the score <<matched, total>>
    pc,                         \* position in parse_transactions / in a direct call
    i,                          \* loop index i of the code (0-based): the line is lines[i + 1]
    transactions,               \* the local list `transactions`
    origin,                     \* ghost: for each transaction, its line and path
    prev_line_was_transaction,  \* carry-over flag of the primary pass
    prev_transaction,           \* carry-over reference: index into transactions, 0 = None
    self_transactions,          \* self.transactions
    call,                       \* a direct call of a pure function: arguments and result
    config,                     \* self.config of the Markdown tool
    files                       \* the file system the Markdown tool writes to: path -> content

vars == <<lines, src, bank_type, confidence, pc, i, transactions, origin, prev_line_was_transaction,
          prev_transaction, self_transactions, call, config, files>>

----------------------------------------------------------------------------
(* Characters *)

ESC  == "<ESC>"      \* \x1b
C0   == "<C0>"       \* a control character of [\x00-\x08\x0b\x0c\x0e-\x1f\x7f]
FFFD == "<FFFD>"     \* U+FFFD, the replacement character
ZW   == "<ZW>"       \* not printable, not whitespace, not removed by clean_text
                     \* (a C1 control such as \x80, or U+200B)
TAB  == "\t"
LF   == "\n"
BACKTICK == "u0060"   \* the grave accent

Digit == {"0", "1", "2", "3", "4", "5", "6", "7", "8", "9"}

\* str.isspace / regex \s, among the characters of the model
IsSpace(c) == c \in {" ", TAB, LF}

IsDigit(c) == c \in Digit

\* regex \w: letters, digits, underscore, CJK; everything of the model's
\* alphabet except punctuation, whitespace and the special characters
NonWordChars ==
    {" ", TAB, LF, ESC, C0, FFFD, ZW, "!", "\"", "#", "$", "%", "&", "'", "(", ")",
     "*", "+", ",", "-", ".", "/", ":", ";", "<", "=", ">", "?", "@", "[", "\\",
     "]", "^", "{", "|", "}", "~"}

IsWord(c) == c \notin NonWordChars

Letters == {"a","b","c","d","e","f","g","h","i","j","k","l","m",
            "n","o","p","q","r","s","t","u","v","w","x","y","z",
            "A","B","C","D","E","F","G","H","I","J","K","L","M",
            "N","O","P","Q","R","S","T","U","V","W","X","Y","Z"}

\* the regex character classes the code uses, by their regex text
InClass(c, cls) ==
    CASE cls = "\\s"       -> IsSpace(c)
      [] cls = "\\S"       -> ~IsSpace(c)
      [] cls = "\\d"       -> IsDigit(c)
      [] cls = "\\w"       -> IsWord(c)
      [] cls = "[0-9;]"    -> IsDigit(c) \/ c = ";"
      [] cls = "[\\d,]"    -> IsDigit(c) \/ c = ","
      [] cls = "[\\d,.-]"  -> IsDigit(c) \/ c \in {",", ".", "-"}
      [] cls = "[\\s\\-_]" -> IsSpace(c) \/ c \in {"-", "_"}
      [] cls = "#"         -> c = "#"
      [] cls = "u0060"     -> c = BACKTICK
      [] cls = "[|+-]"     -> c \in {"|", "+", "-"}
      [] cls = "[A-Za-z0-9]" -> IsDigit(c) \/ c \in Letters

\* str.isprintable
IsPrintable(c) == c \notin {TAB, LF, ESC, C0, ZW}

\* str.lower on one character
LowerChar(c) ==
    CASE c = "A" -> "a" [] c = "B" -> "b" [] c = "C" -> "c" [] c = "D" -> "d"
      [] c = "E" -> "e" [] c = "F" -> "f" [] c = "G" -> "g" [] c = "H" -> "h"
      [] c = "I" -> "i" [] c = "J" -> "j" [] c = "K" -> "k" [] c = "L" -> "l"
      [] c = "M" -> "m" [] c = "N" -> "n" [] c = "O" -> "o" [] c = "P" -> "p"
      [] c = "Q" -> "q" [] c = "R" -> "r" [] c = "S" -> "s" [] c = "T" -> "t"
      [] c = "U" -> "u" [] c = "V" -> "v" [] c = "W" -> "w" [] c = "X" -> "x"
      [] c = "Y" -> "y" [] c = "Z" -> "z" [] OTHER -> c

lower(s) == [k \in 1..Len(s) |-> LowerChar(s[k])]

----------------------------------------------------------------------------
(* String primitives *)

Min(S) == CHOOSE x \in S : \A y \in S : x <= y

\* greedy cls*: the last index j >= p - 1 such that s[p..j] are all in the class
Span(s, p, cls) ==
    LET stop == {k \in p..Len(s) : ~InClass(s[k], cls)}
    IN  IF stop = {} THEN (IF p > Len(s) THEN p - 1 ELSE Len(s)) ELSE Min(stop) - 1

\* needle in hay
Contains(hay, needle) ==
    \/ needle = <<>>
    \/ \E k \in 1..(Len(hay) - Len(needle) + 1) :
          hay[k] = needle[1] /\ SubSeq(hay, k, k + Len(needle) - 1) = needle

\* str.find, 1-based; 0 when absent
Find(hay, needle) ==
    LET hits == {k \in 1..(Len(hay) - Len(needle) + 1) :
                    SubSeq(hay, k, k + Len(needle) - 1) = needle}
    IN  IF hits = {} THEN 0 ELSE Min(hits)

\* str.replace(needle, '', 1)
RemoveFirst(hay, needle) ==
    LET k == Find(hay, needle)
    IN  IF k = 0 THEN hay
        ELSE SubSeq(hay, 1, k - 1) \o SubSeq(hay, k + Len(needle), Len(hay))

\* str.replace(c, '') for a single character c
RemoveChar(s, c) == SelectSeq(s, LAMBDA x : x # c)

lstrip(s) == SubSeq(s, Span(s, 1, "\\s") + 1, Len(s))

rstrip(s) ==
    LET keep == {k \in 1..Len(s) : ~IsSpace(s[k])}
    IN  IF keep = {} THEN <<>> ELSE SubSeq(s, 1, CHOOSE k \in keep : \A j \in keep : j <= k)

strip(s) == rstrip(lstrip(s))

\* str.split(): the maximal runs of non-whitespace
RECURSIVE split(_)
split(s) ==
    LET t == lstrip(s)
    IN  IF t = <<>> THEN <<>>
        ELSE LET e == Span(t, 1, "\\S")
             IN  <<SubSeq(t, 1, e)>> \o split(SubSeq(t, e + 1, Len(t)))

\* str.splitlines(): the pieces between the line feeds; a line feed at the
\* end of the text starts no further line
splitlines(s) ==
    LET starts == {b \in 1..Len(s) : b = 1 \/ s[b - 1] = LF}
        LineAt(b) == SubSeq(s, b, Min({k \in b..(Len(s) + 1) : k > Len(s) \/ s[k] = LF}) - 1)
    IN  [n \in 1..Cardinality(starts) |->
            LineAt(CHOOSE b \in starts : Cardinality({x \in starts : x < b}) = n - 1)]

\* str.split('\n'): the pieces between the line feeds, one more than there
\* are line feeds
SplitLF(s) ==
    LET starts == {b \in 1..(Len(s) + 1) : b = 1 \/ s[b - 1] = LF}
        LineAt(b) == SubSeq(s, b, Min({k \in b..(Len(s) + 1) : k > Len(s) \/ s[k] = LF}) - 1)
    IN  [n \in 1..Cardinality(starts) |->
            LineAt(CHOOSE b \in starts : Cardinality({x \in starts : x < b}) = n - 1)]

\* '\n'.join(parts)
RECURSIVE JoinLF(_)
JoinLF(parts) ==
    IF parts = <<>> THEN <<>>
    ELSE IF Len(parts) = 1 THEN parts[1]
    ELSE parts[1] \o <<LF>> \o JoinLF(Tail(parts))

\* ' '.join(parts)
RECURSIVE join(_)
join(parts) ==
    IF parts = <<>> THEN <<>>
    ELSE IF Len(parts) = 1 THEN parts[1]
    ELSE parts[1] \o <<" ">> \o join(Tail(parts))

\* the subsequence of s at the indices in K
KeepAt(s, K) ==
    LET sel == SelectSeq([k \in 1..Len(s) |-> <<k, s[k]>>], LAMBDA x : x[1] \in K)
    IN  [k \in 1..Len(sel) |-> sel[k][2]]

AllDigits(s) == \A k \in 1..Len(s) : IsDigit(s[k])

----------------------------------------------------------------------------
(* clean_text, normalize_text *)

\* the index of the [mK] that ends \x1b\[[0-9;]*[mK] when its parameters
\* start at p; 0 when there is no such end
AnsiEnd(s, p) ==
    LET e == Span(s, p, "[0-9;]") + 1
    IN  IF e <= Len(s) /\ s[e] \in {"m", "K"} THEN e ELSE 0

\* re.sub(r'\x1b\[[0-9;]*[mK]', '', text).  A match starts at an ESC and
\* holds no other ESC, so matches cannot overlap and every ESC that starts
\* the pattern is a match.
RemoveAnsi(s) ==
    LET starts == {k \in 1..(Len(s) - 2) :
                      s[k] = ESC /\ s[k + 1] = "[" /\ AnsiEnd(s, k + 2) # 0}
        inside == {k \in 1..Len(s) :
                      \E b \in starts : b <= k /\ k <= AnsiEnd(s, b + 2)}
    IN  KeepAt(s, (1..Len(s)) \ inside)

\* re.sub(r'\s+', ' ', text): the first character of each run of whitespace
\* stays, as a space
CollapseSpaces(s) ==
    LET kept == KeepAt(s, {k \in 1..Len(s) :
                              ~IsSpace(s[k]) \/ k = 1 \/ ~IsSpace(s[k - 1])})
    IN  [k \in 1..Len(kept) |-> IF IsSpace(kept[k]) THEN " " ELSE kept[k]]

clean_text(text) ==
    IF text = <<>> THEN <<>>
    ELSE LET t1 == RemoveAnsi(text)
             t2 == SelectSeq(t1, LAMBDA c : c \notin {ESC, C0})
             t3 == SelectSeq(t2, LAMBDA c : c # FFFD)
             t4 == CollapseSpaces(t3)
         IN  strip(t4)

\* normalize_text without the strip of its result
normalize_text_unstripped(text) ==
    IF text = <<>> THEN <<>>
    ELSE SelectSeq(clean_text(text), IsPrintable)

normalize_text(text) ==
    IF text = <<>> THEN <<>>
    ELSE strip(strip(SelectSeq(clean_text(text), IsPrintable)))

----------------------------------------------------------------------------
(* Numbers: the value float() gives a decimal literal, kept exactly as     *)
(* sign, integer digits without leading zeros and fraction digits without  *)
(* trailing zeros.  -0.0 is [neg |-> TRUE, int |-> <<>>, frac |-> <<>>].   *)

StripLeadingZeros(d) ==
    LET nz == {k \in 1..Len(d) : d[k] # "0"}
    IN  IF nz = {} THEN <<>> ELSE SubSeq(d, Min(nz), Len(d))

StripTrailingZeros(d) ==
    LET nz == {k \in 1..Len(d) : d[k] # "0"}
    IN  IF nz = {} THEN <<>> ELSE SubSeq(d, 1, CHOOSE k \in nz : \A j \in nz : j <= k)

\* float(s) for s over digits, '.', '+', '-', ',': <<value>>, or <<>> for ValueError
float(s) ==
    LET signed == s # <<>> /\ s[1] \in {"+", "-"}
        body   == IF signed THEN Tail(s) ELSE s
        dots   == {k \in 1..Len(body) : body[k] = "."}
        dot    == IF dots = {} THEN Len(body) + 1 ELSE Min(dots)
        ip     == SubSeq(body, 1, dot - 1)
        fp     == SubSeq(body, dot + 1, Len(body))
    IN  IF /\ Cardinality(dots) <= 1
           /\ AllDigits(ip)
           /\ AllDigits(fp)
           /\ Len(ip) + Len(fp) >= 1
        THEN <<[neg  |-> signed /\ s[1] = "-",
                int  |-> StripLeadingZeros(ip),
                frac |-> StripTrailingZeros(fp)]>>
        ELSE <<>>

\* str.replace(a + b, '') for two different characters a and b
RemovePair(s, a, b) ==
    LET at == {k \in 1..(Len(s) - 1) : s[k] = a /\ s[k + 1] = b}
    IN  KeepAt(s, (1..Len(s)) \ (at \cup {k + 1 : k \in at}))

\* the end of the match of [-+]?\d*\.?\d+ that starts at p; 0 when there is none
NumberEnd(s, p) ==
    LET first == IF s[p] \in {"+", "-"} THEN p + 1 ELSE p
        j     == Span(s, first, "\\d")
    IN  IF j + 2 <= Len(s) /\ s[j + 1] = "." /\ IsDigit(s[j + 2]) THEN Span(s, j + 2, "\\d")
        ELSE IF j >= first THEN j
        ELSE 0

\* re.search(r'[-+]?\d*\.?\d+', s): <<the match>>, or <<>>
SearchNumber(s) ==
    LET starts == {p \in 1..Len(s) : NumberEnd(s, p) # 0}
    IN  IF starts = {} THEN <<>> ELSE <<SubSeq(s, Min(starts), NumberEnd(s, Min(starts)))>>

ZERO == [neg |-> FALSE, int |-> <<>>, frac |-> <<>>]

\* the sign handling of safe_float on the stripped value without ',' and ' '
safe_float_sign(value) ==
    IF Len(value) >= 2 /\ value[1] = "(" /\ value[Len(value)] = ")"
    THEN <<"-">> \o SubSeq(value, 2, Len(value) - 1)
    ELSE IF value # <<>> /\ value[1] \in {"-", "+"} THEN value
    ELSE IF Contains(value, <<"C", "R">>) \/ Contains(value, <<"c", "r">>)
    THEN <<"-">> \o RemovePair(RemovePair(value, "C", "R"), "c", "r")
    ELSE value

\* float(value), and on ValueError the number found in it, else the default
safe_float_convert(value) ==
    IF float(value) # <<>> THEN float(value)[1]
    ELSE IF SearchNumber(value) # <<>> THEN float(SearchNumber(value)[1])[1]
    ELSE ZERO

\* safe_float(value) for a string value and the default 0.0
safe_float(value) ==
    safe_float_convert(safe_float_sign(RemoveChar(RemoveChar(strip(value), ","), " ")))

IsZero(x) == x.int = <<>> /\ x.frac = <<>>

\* x >= 0
GeZero(x) == ~x.neg \/ IsZero(x)

\* abs(x)
abs(x) == [x EXCEPT !.neg = FALSE]

DigitVal(c) ==
    CASE c = "0" -> 0 [] c = "1" -> 1 [] c = "2" -> 2 [] c = "3" -> 3 [] c = "4" -> 4
      [] c = "5" -> 5 [] c = "6" -> 6 [] c = "7" -> 7 [] c = "8" -> 8 [] c = "9" -> 9

\* int(d) of a short digit string
RECURSIVE ToInt(_)
ToInt(d) == IF d = <<>> THEN 0 ELSE 10 * ToInt(SubSeq(d, 1, Len(d) - 1)) + DigitVal(d[Len(d)])

\* x >= n for an integer n > 0
GeInt(x, n) == ~x.neg /\ (Len(x.int) > 9 \/ ToInt(x.int) >= n)

----------------------------------------------------------------------------
(* Dates: datetime.strptime(date_str, '%Y%m%d') on an 8-digit string *)

IsLeap(y) == (y % 4 = 0 /\ y % 100 # 0) \/ y % 400 = 0

DaysInMonth(y, m) ==
    IF m = 2 THEN (IF IsLeap(y) THEN 29 ELSE 28)
    ELSE IF m \in {4, 6, 9, 11} THEN 30 ELSE 31

\* TRUE when strptime succeeds, FALSE when it raises ValueError
strptime_ok(date_str) ==
    LET y == ToInt(SubSeq(date_str, 1, 4))
        m == ToInt(SubSeq(date_str, 5, 6))
        d == ToInt(SubSeq(date_str, 7, 8))
    IN  y >= 1 /\ m \in 1..12 /\ d >= 1 /\ d <= DaysInMonth(y, m)

\* date_obj.strftime('%Y-%m-%d')
strftime_ymd(date_str) ==
    SubSeq(date_str, 1, 4) \o <<"-">> \o SubSeq(date_str, 5, 6) \o <<"-">>
        \o SubSeq(date_str, 7, 8)

WeekdayNames ==
    << <<"S","u","n","d","a","y">>, <<"M","o","n","d","a","y">>,
       <<"T","u","e","s","d","a","y">>, <<"W","e","d","n","e","s","d","a","y">>,
       <<"T","h","u","r","s","d","a","y">>, <<"F","r","i","d","a","y">>,
       <<"S","a","t","u","r","d","a","y">> >>

\* date_obj.strftime('%A')
strftime_A(date_str) ==
    LET y0 == ToInt(SubSeq(date_str, 1, 4))
        m  == ToInt(SubSeq(date_str, 5, 6))
        d  == ToInt(SubSeq(date_str, 7, 8))
        t  == <<0, 3, 2, 5, 0, 3, 5, 1, 4, 6, 2, 4>>
        y  == IF m < 3 THEN y0 - 1 ELSE y0
    IN  WeekdayNames[((y + (y \div 4) - (y \div 100) + (y \div 400) + t[m] + d) % 7) + 1]

----------------------------------------------------------------------------
(* is_valid_transaction_line *)

MinLineLength == 10

PageLineLength == 20

skip_keywords ==
  <<
    <<"u5408","u540c","I","D","u53f7",":">>,
    <<"u7248","u672c",":">>,
    <<"u6e29","u99a8","u63d0","u793a">>,
    <<"u5408","u8ba1","u7edf","u8ba1">>,
    <<"u5408","u8ba1","u6536","u5165">>,
    <<"u5408","u8ba1","u652f","u51fa">>,
    <<"u4e5d","u6c5f","u94f6","u884c","A","P","P">>,
    <<"u53ef","u9a8c","u8bc1","u5408","u540c","u771f","u4f2a">>,
    <<"=","=","=","=","=">>,
    <<"-","-","-","-","-">>,
    <<"*","*","*","*","*">>,
    <<"u8bb0","u8d26","u65e5","u671f">>,
    <<"D","a","t","e">>,
    <<"C","u","r","r","e","n","c","y">>,
    <<"T","r","a","n","s","a","c","t","i","o","n"," ","A","m","o","u","n","t">> >>

\* any(keyword in text for keyword in keywords)
ContainsAny(text, keywords) ==
    \E k \in 1..Len(keywords) : Contains(text, keywords[k])

\* re.search(r'\d+\s*/\s*\d+', s)
HasPageNumber(s) ==
    \E k \in 1..Len(s) :
        /\ s[k] = "/"
        /\ LET before == rstrip(SubSeq(s, 1, k - 1))
               after  == lstrip(SubSeq(s, k + 1, Len(s)))
           IN  /\ before # <<>> /\ IsDigit(before[Len(before)])
               /\ after # <<>> /\ IsDigit(after[1])

\* re.match(r'^\s*\d{8}\s+', s)
LeadingDate(s) ==
    LET t == lstrip(s)
    IN  Len(t) >= 9 /\ AllDigits(SubSeq(t, 1, 8)) /\ IsSpace(t[9])

\* re.search(r'[\d,]+\.\d{2}', s)
HasDecimalAmount(s) ==
    \E k \in 2..(Len(s) - 2) :
        /\ s[k] = "."
        /\ InClass(s[k - 1], "[\\d,]")
        /\ IsDigit(s[k + 1]) /\ IsDigit(s[k + 2])

\* is_valid_transaction_line with the decimal-amount check left out
is_valid_without_amount_check(line) ==
    IF line = <<>> \/ Len(strip(line)) < MinLineLength THEN FALSE
    ELSE LET line_clean == normalize_text(line)
         IN  IF ContainsAny(line_clean, skip_keywords) THEN FALSE
             ELSE IF HasPageNumber(line_clean) /\ Len(line_clean) < PageLineLength THEN FALSE
             ELSE LeadingDate(line_clean)

is_valid_transaction_line(line) ==
    IF line = <<>> \/ Len(strip(line)) < MinLineLength THEN FALSE
    ELSE LET line_clean == normalize_text(line)
         IN  IF ContainsAny(line_clean, skip_keywords) THEN FALSE
             ELSE IF HasPageNumber(line_clean) /\ Len(line_clean) < PageLineLength THEN FALSE
             ELSE IF ~LeadingDate(line_clean) THEN FALSE
             ELSE IF ~HasDecimalAmount(line_clean) THEN FALSE
             ELSE TRUE

----------------------------------------------------------------------------
(* classify_transaction *)

LargeAmount == 50000

categories ==
  <<
    [category |-> <<"u8f6c","u8d26">>,
     keywords |-> <<<<"u8f6c","u8d26">>, <<"u6c47","u6b3e">>, <<"u8f6c","u51fa">>,
         <<"u8f6c","u5165">>, <<"t","r","a","n","s","f","e","r">>, <<"u8de8","u884c">>,
         <<"u624b","u673a","u8f6c","u8d26">>, <<"u6c47","u6b3e","u6c47","u5165">>>>],
    [category |-> <<"u53d6","u73b0">>,
     keywords |-> <<<<"u53d6","u73b0">>, <<"a","t","m">>, <<"u53d6","u6b3e">>,
         <<"w","i","t","h","d","r","a","w","a","l">>, <<"u73b0","u91d1","u53d6","u6b3e">>>>],
    [category |-> <<"u5b58","u6b3e">>,
     keywords |-> <<<<"u5b58","u6b3e">>, <<"u5b58","u5165">>, <<"d","e","p","o","s","i","t">>,
         <<"u73b0","u91d1","u5b58","u6b3e">>>>],
    [category |-> <<"u6d88","u8d39">>,
     keywords |-> <<<<"u6d88","u8d39">>, <<"p","o","s">>, <<"u652f","u4ed8">>,
         <<"u652f","u4ed8","u5b9d">>, <<"u5fae","u4fe1">>, <<"u6d88","u8d39">>,
         <<"s","h","o","p","p","i","n","g">>, <<"u7f8e","u56e2">>, <<"u6ef4","u6ef4">>,
         <<"u4eac","u4e1c">>>>],
    [category |-> <<"u5de5","u8d44">>,
     keywords |-> <<<<"u5de5","u8d44">>, <<"u85aa","u8d44">>, <<"u85aa","u91d1">>,
         <<"s","a","l","a","r","y">>, <<"u7ee9","u6548">>, <<"u5956","u91d1">>>>],
    [category |-> <<"u5229","u606f">>,
     keywords |-> <<<<"u5229","u606f">>, <<"u7ed3","u606f">>,
         <<"i","n","t","e","r","e","s","t">>, <<"u5229","u606f","u6536","u5165">>>>],
    [category |-> <<"u624b","u7eed","u8d39">>,
     keywords |-> <<<<"u624b","u7eed","u8d39">>, <<"u7ba1","u7406","u8d39">>,
         <<"u5e74","u8d39">>, <<"f","e","e">>, <<"c","h","a","r","g","e">>,
         <<"u670d","u52a1","u8d39">>, <<"u5de5","u672c","u8d39">>>>],
    [category |-> <<"u8fd8","u6b3e">>,
     keywords |-> <<<<"u8fd8","u6b3e">>, <<"u8fd8","u8d37">>,
         <<"r","e","p","a","y","m","e","n","t">>, <<"u4fe1","u7528","u5361","u8fd8","u6b3e">>>>],
    [category |-> <<"u8d37","u6b3e">>,
     keywords |-> <<<<"u8d37","u6b3e">>, <<"u653e","u6b3e">>, <<"l","o","a","n">>,
         <<"u501f","u6b3e">>>>] >>

LARGE_TRANSFER == <<"u5927","u989d","u8f6c","u8d26">>         \* "large transfer"
CORPORATE      == <<"u5bf9","u516c","u4ea4","u6613">>         \* "corporate"
UNKNOWN        == <<"u672a","u77e5","u4ea4","u6613">>         \* "unknown"
TYPE_OTHER     == <<"u5176","u4ed6">>                        \* TransactionType.OTHER

corporate_markers ==
    << <<"u516c","u53f8">>, <<"u6709","u9650">>, <<"u96c6","u56e2">>, <<"u79d1","u6280">> >>

\* the for loop over categories.items(): the first category, in declared
\* order, one of whose keywords is in either string; <<>> when none is
RECURSIVE KeywordCategory(_, _, _)
KeywordCategory(k, trans_type_lower, counterparty_lower) ==
    IF k > Len(categories) THEN <<>>
    ELSE IF \/ ContainsAny(trans_type_lower, categories[k].keywords)
            \/ ContainsAny(counterparty_lower, categories[k].keywords)
         THEN <<categories[k].category>>
         ELSE KeywordCategory(k + 1, trans_type_lower, counterparty_lower)

\* InferCategory with the final return left out: the function falls off its
\* end and returns None
InferCategoryNoDefault(counterparty, amount) ==
    IF GeInt(amount, LargeAmount) /\ counterparty # <<>> THEN LARGE_TRANSFER
    ELSE IF ContainsAny(lower(counterparty), corporate_markers) THEN CORPORATE
    ELSE IF counterparty = <<>> \/ counterparty \in {<<>>, <<" ">>} THEN UNKNOWN
    ELSE <<"<None>">>

\* the inference from amount and counterparty, when no keyword matched
InferCategory(counterparty, amount) ==
    IF GeInt(amount, LargeAmount) /\ counterparty # <<>> THEN LARGE_TRANSFER
    ELSE IF ContainsAny(lower(counterparty), corporate_markers) THEN CORPORATE
    ELSE IF counterparty = <<>> \/ counterparty \in {<<>>, <<" ">>} THEN UNKNOWN
    ELSE TYPE_OTHER

\* classify_transaction with the amount rule tried before the keywords
classify_amount_first(trans_type, counterparty, amount) ==
    IF GeInt(amount, LargeAmount) /\ counterparty # <<>> THEN LARGE_TRANSFER
    ELSE LET hit == KeywordCategory(1, lower(trans_type), lower(counterparty))
         IN  IF hit # <<>> THEN hit[1] ELSE InferCategory(counterparty, amount)

classify_transaction(trans_type, counterparty, amount) ==
    LET hit == KeywordCategory(1, lower(trans_type), lower(counterparty))
    IN  IF hit # <<>> THEN hit[1] ELSE InferCategory(counterparty, amount)

----------------------------------------------------------------------------
(* parse_counterparty_info *)

\* Python's None where a string is expected
None == <<"<None>">>

\* The patterns r'\b\d{lo,hi}\b'.  Digits are word characters, so a match
\* is a maximal run of word characters that consists of lo to hi digits.
\* the starts of the maximal runs of word characters that consist of lo to
\* hi digits
DigitWordStarts(s, lo, hi) ==
    {k \in 1..Len(s) :
        /\ IsWord(s[k]) /\ (k = 1 \/ ~IsWord(s[k - 1]))
        /\ LET w == SubSeq(s, k, Span(s, k, "\\w"))
           IN  AllDigits(w) /\ Len(w) >= lo /\ Len(w) <= hi}

\* re.findall(pattern, text)[0], for a text that has a match
FirstDigitWord(s, lo, hi) ==
    LET k == Min(DigitWordStarts(s, lo, hi))
    IN  SubSeq(s, k, Span(s, k, "\\w"))

\* re.sub(pattern, '', text): every match is removed
RemoveDigitWords(s, lo, hi) ==
    LET starts == DigitWordStarts(s, lo, hi)
        inside == {k \in 1..Len(s) :
                      \E b \in starts : b <= k /\ k <= Span(s, b, "\\w")}
    IN  KeepAt(s, (1..Len(s)) \ inside)

account_patterns == << <<16, 19>>, <<12, 15>>, <<8, 11>> >>

\* re.sub(r'[\s\-_]+$', '', s)
RemoveTrailingSeparators(s) ==
    LET keep == {k \in 1..Len(s) : ~InClass(s[k], "[\\s\\-_]")}
    IN  IF keep = {} THEN <<>> ELSE SubSeq(s, 1, CHOOSE k \in keep : \A j \in keep : j <= k)

RECURSIVE SplitByPattern(_, _)
SplitByPattern(text, k) ==
    IF k > Len(account_patterns) THEN [name |-> text, account |-> None]
    ELSE LET lo == account_patterns[k][1]
             hi == account_patterns[k][2]
         IN  IF DigitWordStarts(text, lo, hi) # {}
             THEN [name    |-> RemoveTrailingSeparators(
                                   strip(RemoveDigitWords(text, lo, hi))),
                   account |-> FirstDigitWord(text, lo, hi)]
             ELSE SplitByPattern(text, k + 1)

parse_counterparty_info(text) ==
    IF text = <<>> THEN [name |-> <<>>, account |-> None]
    ELSE SplitByPattern(normalize_text(text), 1)

----------------------------------------------------------------------------
(* parse_transaction_line *)

INCOME  == <<"u6536","u5165">>
EXPENSE == <<"u652f","u51fa">>
CNY     == <<"C","N","Y">>
DEFAULT_TYPE == <<"u8f6c","u8d26">>

\* The strict layout, re.match(r'(\d{8})\s+(\w+)\s+([\d,.-]+)\s+([\d,.-]+)\s+(\S+)\s+(.+)', s).
\* Every group but the last is a character class followed by \s+, and no
\* class contains whitespace, so a group can only end where its maximal run
\* ends: the scan takes each maximal run in turn and finds the match exactly
\* when there is one.
strict_classes ==
    <<"\\s", "\\w", "\\s", "[\\d,.-]", "\\s", "[\\d,.-]", "\\s", "\\S", "\\s">>

\* the ends of the runs of strict_classes[k..] that follow position p, each
\* run non-empty; the scan stops at the first empty run
RECURSIVE RunEnds(_, _, _)
RunEnds(s, p, k) ==
    IF k > Len(strict_classes) \/ Span(s, p + 1, strict_classes[k]) = p THEN <<>>
    ELSE <<Span(s, p + 1, strict_classes[k])>>
             \o RunEnds(s, Span(s, p + 1, strict_classes[k]), k + 1)

\* match.groups(), given the ends e of the nine runs after the date
StrictGroups(s, e) ==
    [date_str     |-> SubSeq(s, 1, 8),
     currency     |-> SubSeq(s, e[1] + 1, e[2]),
     amount_str   |-> SubSeq(s, e[3] + 1, e[4]),
     balance_str  |-> SubSeq(s, e[5] + 1, e[6]),
     trans_type   |-> SubSeq(s, e[7] + 1, e[8]),
     counterparty |-> SubSeq(s, e[9] + 1, Len(s))]

\* <<groups>> on a match, <<>> otherwise
StrictMatch(s) ==
    IF /\ Len(s) >= 8 /\ AllDigits(SubSeq(s, 1, 8))
       /\ Len(RunEnds(s, 8, 1)) = Len(strict_classes)
       /\ Len(s) > RunEnds(s, 8, 1)[Len(strict_classes)]
    THEN <<StrictGroups(s, RunEnds(s, 8, 1))>>
    ELSE <<>>

\* clean_amount with the separators left in
clean_amount_kept(amount_str) == amount_str

\* amount_str.replace(',', '')
clean_amount(amount_str) == RemoveChar(amount_str, ",")

\* SplitLastAccount with a last token of digits of any length as the account
SplitLastAccountAnyLength(counterparty) ==
    LET counterparty_parts == split(strip(counterparty))
        n == Len(counterparty_parts)
    IN  IF n >= 2 /\ AllDigits(counterparty_parts[n])
        THEN [name    |-> join(SubSeq(counterparty_parts, 1, n - 1)),
              account |-> counterparty_parts[n]]
        ELSE [name |-> counterparty, account |-> <<>>]

\* the split of the counterparty text on the strict path
\* (parse_transaction_line and parse_transactions_fallback)
SplitLastAccount(counterparty) ==
    LET counterparty_parts == split(strip(counterparty))
        n == Len(counterparty_parts)
    IN  IF n >= 2 /\ AllDigits(counterparty_parts[n])
              /\ Len(counterparty_parts[n]) >= 8 /\ Len(counterparty_parts[n]) <= 19
        THEN [name    |-> join(SubSeq(counterparty_parts, 1, n - 1)),
              account |-> counterparty_parts[n]]
        ELSE [name |-> counterparty, account |-> <<>>]

\* the direction and the stored amount of a signed amount
direction(amount_num) == IF GeZero(amount_num) THEN INCOME ELSE EXPENSE

stored_amount(amount_num) == IF GeZero(amount_num) THEN amount_num ELSE abs(amount_num)

\* the transaction dict; the keys are, in order: formatted date, weekday,
\* posting date, currency, amount, direction, direction (Chinese), balance,
\* type, category, counterparty name, counterparty account, raw counterparty.
\* g holds date_str, currency, trans_type and counterparty; cp the name and
\* the account of the counterparty.
Transaction(date, weekday, g, amount_num, balance_num, cp) ==
    [date                 |-> date,
     weekday              |-> weekday,
     posting_date         |-> g.date_str,
     currency             |-> g.currency,
     amount               |-> stored_amount(amount_num),
     direction            |-> direction(amount_num),
     direction_zh         |-> direction(amount_num),
     balance              |-> balance_num,
     trans_type           |-> g.trans_type,
     category             |-> classify_transaction(g.trans_type, cp.name, stored_amount(amount_num)),
     counterparty_name    |-> cp.name,
     counterparty_account |-> cp.account,
     raw_counterparty     |-> g.counterparty]

\* re.search(r'(\d{8})', s): the start of the first run of 8 digits, 0 if none
FirstDate(s) ==
    LET hits == {k \in 1..(Len(s) - 7) : AllDigits(SubSeq(s, k, k + 7))}
    IN  IF hits = {} THEN 0 ELSE Min(hits)

\* the end of the match of [+-]?\s*\d[\d,]*\.?\d* that starts at p, 0 if none
AmountMatchEnd(s, p) ==
    LET q == IF s[p] \in {"+", "-"} THEN p + 1 ELSE p
        r == Span(s, q, "\\s") + 1
    IN  IF r <= Len(s) /\ IsDigit(s[r])
        THEN LET a == Span(s, r + 1, "[\\d,]")
                 b == IF a + 1 <= Len(s) /\ s[a + 1] = "." THEN a + 1 ELSE a
             IN  Span(s, b + 1, "\\d")
        ELSE 0

\* re.findall(r'([+-]?\s*\d[\d,]*\.?\d*)', s), scanning from p
RECURSIVE FindAmounts(_, _)
FindAmounts(s, p) ==
    LET starts == {k \in p..Len(s) : AmountMatchEnd(s, k) # 0}
    IN  IF starts = {} THEN <<>>
        ELSE LET b == Min(starts)
                 e == AmountMatchEnd(s, b)
             IN  <<SubSeq(s, b, e)>> \o FindAmounts(s, e + 1)

\* for amt in amount_matches[:2]: if amt in remaining: remaining.replace(amt, '', 1)
RECURSIVE RemoveEach(_, _)
RemoveEach(remaining, amts) ==
    IF amts = <<>> THEN remaining
    ELSE RemoveEach(RemoveFirst(remaining, Head(amts)), Tail(amts))

\* the remaining text after the date and the first two amounts are removed
\* from the line, split on whitespace
RemainingParts(line_clean, date_str, amount_matches) ==
    split(strip(RemoveEach(RemoveFirst(line_clean, date_str),
                           SubSeq(amount_matches, 1, 2))))

\* the type and the counterparty taken from the remaining parts
LenientGroups(date_str, parts) ==
    [date_str     |-> date_str,
     currency     |-> CNY,
     trans_type   |-> IF parts # <<>> THEN parts[1] ELSE DEFAULT_TYPE,
     counterparty |-> IF Len(parts) > 1 THEN join(Tail(parts)) ELSE <<>>]

\* float(amt.replace(',', '').replace(' ', ''))
lenient_amount(amt) == float(RemoveChar(RemoveChar(amt, ","), " "))

\* the transaction of the lenient strategy, from the date, the amounts found
\* and the groups
LenientTransaction(date_str, amount_matches, g) ==
    IF lenient_amount(amount_matches[1]) = <<>> \/ lenient_amount(amount_matches[2]) = <<>>
    THEN <<>>
    ELSE <<Transaction(strftime_ymd(date_str), strftime_A(date_str), g,
                       lenient_amount(amount_matches[1])[1],
                       lenient_amount(amount_matches[2])[1],
                       parse_counterparty_info(g.counterparty))>>

\* the body of parse_transaction_line_lenient once the date is found
LenientFields(line_clean, date_str, amount_matches) ==
    IF ~strptime_ok(date_str) THEN <<>>
    ELSE IF Len(amount_matches) < 2 THEN <<>>
    ELSE LenientTransaction(date_str, amount_matches,
             LenientGroups(date_str, RemainingParts(line_clean, date_str, amount_matches)))

parse_transaction_line_lenient(line_clean) ==
    IF FirstDate(line_clean) = 0 THEN <<>>
    ELSE LenientFields(line_clean,
                       SubSeq(line_clean, FirstDate(line_clean), FirstDate(line_clean) + 7),
                       FindAmounts(line_clean, 1))

\* the strict strategy of parse_transaction_line, from the groups of the match
StrictTransaction(g) ==
    IF float(clean_amount(g.amount_str)) = <<>> \/ float(clean_amount(g.balance_str)) = <<>>
    THEN <<>>
    ELSE <<Transaction(
               IF strptime_ok(g.date_str) THEN strftime_ymd(g.date_str) ELSE g.date_str,
               IF strptime_ok(g.date_str) THEN strftime_A(g.date_str) ELSE <<>>,
               g, float(clean_amount(g.amount_str))[1],
               float(clean_amount(g.balance_str))[1],
               SplitLastAccount(g.counterparty))>>

\* ParseClean with the lenient strategy tried again when the strict one
\* gives up on a matching line
ParseCleanRetry(line_clean, match) ==
    IF match # <<>> /\ StrictTransaction(match[1]) # <<>> THEN StrictTransaction(match[1])
    ELSE parse_transaction_line_lenient(line_clean)

\* the two strategies in turn, on the normalized line
ParseClean(line_clean, match) ==
    IF match # <<>> THEN StrictTransaction(match[1])
    ELSE parse_transaction_line_lenient(line_clean)

\* parse_transaction_line without the validation at its top
parse_unvalidated(line) ==
    ParseClean(normalize_text(line), StrictMatch(normalize_text(line)))

parse_transaction_line(line) ==
    IF ~is_valid_transaction_line(line) THEN <<>>
    ELSE ParseClean(normalize_text(line), StrictMatch(normalize_text(line)))
----------------------------------------------------------------------------
(* detect_bank_type.  A bank type is written by the name of its BankType   *)
(* member; a score is the exact fraction <<matched, total>>.               *)

bank_keywords ==
  <<
    [bank_type |-> "JIUJIANG",
     keywords |-> <<<<"u4e5d","u6c5f","u94f6","u884c">>,
         <<"j","i","u","j","i","a","n","g">>>>],
    [bank_type |-> "ICBC",
     keywords |-> <<<<"u5de5","u5546","u94f6","u884c">>,
         <<"i","c","b","c">>,
         <<"i","n","d","u","s","t","r","i","a","l"," ","a","n","d"," ","c","o","m","m","e","r","c","i","a","l">>>>],
    [bank_type |-> "CCB",
     keywords |-> <<<<"u5efa","u8bbe","u94f6","u884c">>,
         <<"c","c","b">>,
         <<"c","o","n","s","t","r","u","c","t","i","o","n"," ","b","a","n","k">>>>],
    [bank_type |-> "ABC",
     keywords |-> <<<<"u519c","u4e1a","u94f6","u884c">>,
         <<"a","b","c">>,
         <<"a","g","r","i","c","u","l","t","u","r","a","l"," ","b","a","n","k">>>>],
    [bank_type |-> "BOC",
     keywords |-> <<<<"u4e2d","u56fd","u94f6","u884c">>,
         <<"b","o","c">>,
         <<"b","a","n","k"," ","o","f"," ","c","h","i","n","a">>>>],
    [bank_type |-> "CMB",
     keywords |-> <<<<"u62db","u5546","u94f6","u884c">>,
         <<"c","m","b">>,
         <<"m","e","r","c","h","a","n","t","s"," ","b","a","n","k">>>>],
    [bank_type |-> "COMM",
     keywords |-> <<<<"u4ea4","u901a","u94f6","u884c">>,
         <<"b","a","n","k"," ","o","f"," ","c","o","m","m","u","n","i","c","a","t","i","o","n","s">>,
         <<"b","c","m">>>>],
    [bank_type |-> "CITIC",
     keywords |-> <<<<"u4e2d","u4fe1","u94f6","u884c">>,
         <<"c","i","t","i","c">>>>],
    [bank_type |-> "CIB",
     keywords |-> <<<<"u5174","u4e1a","u94f6","u884c">>,
         <<"c","i","b">>,
         <<"i","n","d","u","s","t","r","i","a","l"," ","b","a","n","k">>>>],
    [bank_type |-> "SPDB",
     keywords |-> <<<<"u6d66","u53d1","u94f6","u884c">>,
         <<"s","p","d","b">>,
         <<"p","u","d","o","n","g"," ","d","e","v","e","l","o","p","m","e","n","t">>>>],
    [bank_type |-> "POST",
     keywords |-> <<<<"u90ae","u653f","u50a8","u84c4">>,
         <<"p","o","s","t","a","l"," ","s","a","v","i","n","g","s">>>>] >>

\* the inner loop: the number of keywords of one profile found in the text
MatchedKeywords(keywords, content_lower) ==
    Cardinality({k \in 1..Len(keywords) : Contains(content_lower, lower(keywords[k]))})

\* the comparison with ties given to the later profile
ScoreGreaterOrEqual(final_score, best_score) ==
    final_score[1] * best_score[2] >= best_score[1] * final_score[2]

\* final_score > best_score
ScoreGreater(final_score, best_score) ==
    final_score[1] * best_score[2] > best_score[1] * final_score[2]

\* one profile's pass through the loop body: the new best match and score
BestAfter(best, bank, final_score) ==
    IF final_score[2] > 0 /\ ScoreGreater(final_score, best.confidence)
    THEN [bank_type |-> bank, confidence |-> final_score]
    ELSE best

\* the loop over bank_keywords.items(), from profile p on
RECURSIVE DetectLoop(_, _, _)
DetectLoop(p, best, content_lower) ==
    IF p > Len(bank_keywords) THEN best
    ELSE DetectLoop(p + 1,
                    BestAfter(best, bank_keywords[p].bank_type,
                              <<MatchedKeywords(bank_keywords[p].keywords, content_lower),
                                Len(bank_keywords[p].keywords)>>),
                    content_lower)

\* content_lower = content.lower(); best_match, best_score = UNKNOWN, 0.0;
\* the loop; return best_match, best_score
detect_bank_type(content) ==
    CHOOSE best \in {DetectLoop(1, [bank_type |-> "UNKNOWN", confidence |-> <<0, 1>>],
                                content_lower) : content_lower \in {lower(content)}} : TRUE

SampleLines == 50

\* ' '.join(self.lines[:50])
RECURSIVE JoinLines(_)
JoinLines(ls) ==
    IF ls = <<>> THEN <<>>
    ELSE IF Len(ls) = 1 THEN ls[1]
    ELSE ls[1] \o <<" ">> \o JoinLines(Tail(ls))

content_sample(ls) ==
    JoinLines(SubSeq(ls, 1, IF Len(ls) < SampleLines THEN Len(ls) ELSE SampleLines))

----------------------------------------------------------------------------
(* parse_transactions and parse_transactions_fallback *)

HEADER_DATE    == <<"u8bb0","u8d26","u65e5","u671f">>
HEADER_DATE_EN == <<"D","a","t","e">>
HEADER_AMOUNT  == <<"u4ea4","u6613","u91d1","u989d">>
HEADER_AMOUNT_EN ==
    <<"T","r","a","n","s","a","c","t","i","o","n"," ","A","m","o","u","n","t">>

IsHeaderLine(line) ==
    /\ Contains(line, HEADER_DATE) \/ Contains(line, HEADER_DATE_EN)
    /\ Contains(line, HEADER_AMOUNT) \/ Contains(line, HEADER_AMOUNT_EN)

IsFirstDataLine(line) ==
    LET line_clean == normalize_text(line)
    IN  LeadingDate(line_clean) /\ HasDecimalAmount(line_clean)

\* find_transaction_start with the pass always started at the first line
find_transaction_start_at_zero(ls) == 0

\* the index (0-based, as in the code) where the primary pass starts
find_transaction_start(ls) ==
    LET headers == {k \in 1..Len(ls) : IsHeaderLine(ls[k])}
        firsts  == {k \in 1..Len(ls) : IsFirstDataLine(ls[k])}
    IN  IF headers # {} THEN Min(headers)        \* i + 1 for the 0-based i = k - 1
        ELSE IF firsts # {} THEN Min(firsts) - 1
        ELSE 0

\* the check at the top of the loop body: the line continues the previous
\* transaction
IsContinuation(line) ==
    prev_line_was_transaction /\ prev_transaction # 0 /\ ~LeadingDate(line)

\* AppendContinuation without the separating space
AppendContinuationNoSpace(t, line) ==
    LET line_clean == normalize_text(line)
    IN  [t EXCEPT !.raw_counterparty  = @ \o line_clean,
                  !.counterparty_name = @ \o line_clean]

\* AppendContinuation followed by a new classification of the extended name
AppendContinuationReclassify(t, line) ==
    LET line_clean == normalize_text(line)
    IN  [t EXCEPT !.raw_counterparty  = @ \o <<" ">> \o line_clean,
                  !.counterparty_name = @ \o <<" ">> \o line_clean,
                  !.category = classify_transaction(t.trans_type,
                                   t.counterparty_name \o <<" ">> \o line_clean, t.amount)]

\* prev_transaction[...] += ' ' + line_clean, on both counterparty fields
AppendContinuation(t, line) ==
    LET line_clean == normalize_text(line)
    IN  [t EXCEPT !.raw_counterparty  = @ \o <<" ">> \o line_clean,
                  !.counterparty_name = @ \o <<" ">> \o line_clean]

fallback_skip_keywords ==
  <<
    <<"u5408","u540c","I","D","u53f7",":">>,
    <<"u7248","u672c",":">>,
    <<"u6e29","u99a8","u63d0","u793a">>,
    <<"u5408","u8ba1","u7edf","u8ba1">> >>

\* one iteration of the loop of parse_transactions_fallback:
\* <<transaction>> when one is appended, <<>> when the line is passed over
FallbackTransaction(g) ==
    IF ~strptime_ok(g.date_str) THEN <<>>
    ELSE IF float(clean_amount(g.amount_str)) = <<>>
              \/ float(clean_amount(g.balance_str)) = <<>> THEN <<>>
    ELSE <<Transaction(strftime_ymd(g.date_str), strftime_A(g.date_str), g,
                       float(clean_amount(g.amount_str))[1],
                       float(clean_amount(g.balance_str))[1],
                       SplitLastAccount(g.counterparty))>>

FallbackClean(line_clean, match) ==
    IF ContainsAny(line_clean, fallback_skip_keywords) THEN <<>>
    ELSE IF match = <<>> THEN <<>>
    ELSE FallbackTransaction(match[1])

fallback_line(line) ==
    FallbackClean(normalize_text(line), StrictMatch(normalize_text(line)))

\* ghost: which strategy of parse_transaction_line produced the transaction
PathOf(line) ==
    IF StrictMatch(normalize_text(line)) # <<>> THEN "strict" ELSE "lenient"

----------------------------------------------------------------------------
(* Input lines.  A line is either free text or a transaction line written  *)
(* from its fields: date, optional currency, amount, balance, type and     *)
(* counterparty, separated by one or more spaces.  Amounts are written     *)
(* from [neg, int, frac]: sign, integer digits, fraction digits.           *)

MaxLines == 3       \* lines in a document
MaxSep   == 2       \* spaces between two columns of a transaction line

\* the digits with thousands separators
RECURSIVE Group3(_)
Group3(d) ==
    IF Len(d) <= 3 THEN d
    ELSE Group3(SubSeq(d, 1, Len(d) - 3)) \o <<",">> \o SubSeq(d, Len(d) - 2, Len(d))

WriteAmount(a, commas) ==
    (IF a.neg THEN <<"-">> ELSE <<>>)
        \o (IF commas THEN Group3(a.int) ELSE a.int)
        \o (IF a.frac = <<>> THEN <<>> ELSE <<".">> \o a.frac)

\* the number an amount denotes
ValueOf(a) ==
    [neg  |-> a.neg /\ (StripLeadingZeros(a.int) # <<>> \/ StripTrailingZeros(a.frac) # <<>>),
     int  |-> StripLeadingZeros(a.int),
     frac |-> StripTrailingZeros(a.frac)]

Spaces(n) == [k \in 1..n |-> " "]

LineOf(s) ==
    IF s.kind = "text" THEN s.text
    ELSE s.date \o Spaces(s.sep)
           \o (IF s.currency = <<>> THEN <<>> ELSE s.currency \o Spaces(s.sep))
           \o WriteAmount(s.amount, s.commas) \o Spaces(s.sep)
           \o WriteAmount(s.balance, s.commas) \o Spaces(s.sep)
           \o s.trans_type
           \o (IF s.counterparty = <<>> THEN <<>> ELSE Spaces(s.sep) \o s.counterparty)

Text(t) == [kind |-> "text", text |-> t]

Txn(date, currency, amount, balance, commas, sep, trans_type, counterparty) ==
    [kind |-> "txn", date |-> date, currency |-> currency, amount |-> amount,
     balance |-> balance, commas |-> commas, sep |-> sep,
     trans_type |-> trans_type, counterparty |-> counterparty]

Amt(neg, int, frac) == [neg |-> neg, int |-> int, frac |-> frac]

D_20250113 == <<"2","0","2","5","0","1","1","3">>
D_20250114 == <<"2","0","2","5","0","1","1","4">>
D_20251345 == <<"2","0","2","5","1","3","4","5">>       \* no such month, no such day
T_TRANSFER == <<"u8f6c","u8d26">>
T_XX       == <<"X","X">>
N_LIAO     == <<"u5ed6","u7075","u5a07">>
N_ZHANG    == <<"u5f20","u4e09">>
N_LIAO_ACCT ==
    N_LIAO \o <<" ","6","2","1","4","8","3","0","3","7","3","5","2","9","9","2","3">>
N_DATE_CORP == <<"D","a","t","e"," ","C","o","r","p">>
A_300000_00 == Amt(FALSE, <<"3","0","0","0","0","0">>, <<"0","0">>)
A_304294_31 == Amt(FALSE, <<"3","0","4","2","9","4">>, <<"3","1">>)
A_M1234_56  == Amt(TRUE, <<"1","2","3","4">>, <<"5","6">>)
A_M0_00     == Amt(TRUE, <<"0">>, <<"0","0">>)
A_100       == Amt(FALSE, <<"1","0","0">>, <<>>)
A_200       == Amt(FALSE, <<"2","0","0">>, <<>>)
A_1000_00   == Amt(FALSE, <<"1","0","0","0">>, <<"0","0">>)

\* free-text lines
X_CONTINUATION == <<"u8f6c","u8d26","u9644","u8a00","u7eed","u884c">>
X_PAGE         == <<"1"," ","/"," ","8","7">>
X_HEADER ==
    <<"u8bb0","u8d26","u65e5","u671f"," ","u8d27","u5e01"," ","u4ea4","u6613","u91d1","u989d",
      " ","u8054","u673a","u4f59","u989d">>
X_DATE_PAGE ==
    <<"2","0","2","5","0","1","1","3"," ","1","/","2"," ","3",".","0","0">>
X_DATE_ONLY == <<"2","0","2","5","0","1","1","3"," ","5",".","0","0">>
X_SHORT_DATE ==
    <<"2","0","2","5","0","1","1"," ","C","N","Y"," ","5",".","0","0"," ","6",".","0","0",
      " ","X","X"," ","u5f20","u4e09">>
X_TAB_ZW ==
    <<"2","0","2","5","0","1","1","3",TAB,"C","N","Y"," ",ZW," ","5",".","0","0"," ",
      "6",".","0","0"," ","X","X"," ","u5f20","u4e09">>

X_BAD_DASH ==
    <<"2","0","2","5","0","1","1","3"," ","C","N","Y"," ","-"," ","3","0","4",",","2","9","4",
      ".","3","1"," ","X","X"," ","u5f20","u4e09">>
X_BAD_DOTS ==
    <<"2","0","2","5","0","1","1","3"," ","C","N","Y"," ","1",".","2",".","3"," ","2","0","0",
      ".","0","0"," ","X","X"," ","u5f20","u4e09">>
X_EDGES == <<" ", ZW, " ", "a", TAB, ESC, "[", "0", "m", " ", ZW>>
\* strict lines that differ in the counterparty remainder only
P_5_6 ==
    <<"2","0","2","5","0","1","1","3"," ","C","N","Y"," ","5",".","0","0"," ","6",".","0","0",
      " ","X","X"," ">>
X_ACCT_ONLY  == P_5_6 \o <<"6","2","1","4","8","3","0","3","7","3","5","2","9","9","2","3">>
X_ACCT_7     == P_5_6 \o N_ZHANG \o <<" ","1","2","3","4","5","6","7">>
X_ACCT_8     == P_5_6 \o N_LIAO \o <<" ">> \o N_ZHANG \o <<" ","1","2","3","4","5","6","7","8">>
X_ACCT_19    ==
    P_5_6 \o N_ZHANG
      \o <<" ","1","2","3","4","5","6","7","8","9","0","1","2","3","4","5","6","7","8","9">>
X_ACCT_20    ==
    P_5_6 \o N_ZHANG
      \o <<" ","1","2","3","4","5","6","7","8","9","0","1","2","3","4","5","6","7","8","9","0">>
\* counterparty texts
X_CP_TWO_SHORT == N_ZHANG \o <<" ","1","2","3","4","5","6","7","8"," ","8","7","6","5","4","3","2","1">>
X_CP_SHORT_LONG ==
    N_ZHANG \o <<" ","1","2","3","4","5","6","7","8"," ">>
      \o <<"6","2","1","4","8","3","0","3","7","3","5","2","9","9","2","3">>
X_CP_GLUED   == N_ZHANG \o <<"6","2","1","4","8","3","0","3","7","3","5","2","9","9","2","3">>
X_CP_TRAILER == N_LIAO_ACCT \o <<" ","-","_"," ">>
\* lines with an amount or a balance in parentheses or with a CR marker
A_PAREN == <<"(","1",",","2","3","4",".","5","6",")">>
A_CR    == <<"1",",","2","3","4",".","5","6","C","R">>
A_PLAIN == <<"1",",","0","0","0",".","0","0">>
P_DATE_CNY == D_20250113 \o <<" ">> \o CNY \o <<" ">>
S_XX_ZHANG == <<" ">> \o T_XX \o <<" ">> \o N_ZHANG
X_PAREN_AMOUNT  == P_DATE_CNY \o A_PAREN \o <<" ">> \o A_PLAIN \o S_XX_ZHANG
X_CR_AMOUNT     == P_DATE_CNY \o A_CR \o <<" ">> \o A_PLAIN \o S_XX_ZHANG
X_PAREN_BALANCE == P_DATE_CNY \o A_PLAIN \o <<" ">> \o A_PAREN \o S_XX_ZHANG
X_BANK  == <<"u4e5d","u6c5f","u94f6","u884c">>                \* the name of a bank

\* the lines of the documents of Spec
LinePool ==
    { Txn(D_20250113, CNY, A_300000_00, A_304294_31, TRUE, 1, T_TRANSFER, N_LIAO_ACCT),
      Txn(D_20250114, <<>>, A_M1234_56, A_1000_00, TRUE, 1, T_XX, N_ZHANG),
      Txn(D_20251345, CNY, A_M1234_56, A_1000_00, FALSE, 1, T_XX, N_ZHANG),
      Txn(D_20250113, CNY, A_100, A_200, FALSE, 1, T_XX, N_ZHANG),
      Txn(D_20250114, CNY, A_1000_00, A_304294_31, FALSE, 1, T_TRANSFER, N_DATE_CORP),
      Text(X_CONTINUATION),
      Text(X_PAGE),
      Text(X_HEADER),
      Text(X_BANK) }

Documents == UNION {[1..n -> LinePool] : n \in 0..MaxLines}

\* the lines of SpecLine
LineSources ==
    { Txn(d, c, a, b, commas, sep, t, n) :
        d \in {D_20250113, D_20251345},
        c \in {CNY, <<>>},
        a \in {A_300000_00, A_M1234_56, A_M0_00, A_100},
        b \in {A_304294_31, A_200},
        commas \in BOOLEAN,
        sep \in 1..MaxSep,
        t \in {T_TRANSFER, T_XX},
        n \in {N_LIAO_ACCT, N_ZHANG, N_DATE_CORP, <<>>} }
    \cup { Text(t) : t \in {X_CONTINUATION, X_PAGE, X_HEADER, X_DATE_PAGE, X_DATE_ONLY,
                            X_SHORT_DATE, X_TAB_ZW, X_BAD_DASH, X_BAD_DOTS, X_EDGES,
                            X_ACCT_ONLY, X_ACCT_7, X_ACCT_8, X_ACCT_19, X_ACCT_20,
                            X_CP_TWO_SHORT, X_CP_SHORT_LONG, X_CP_GLUED, X_CP_TRAILER,
                            N_LIAO_ACCT, N_ZHANG,
                            X_PAREN_AMOUNT, X_CR_AMOUNT, X_PAREN_BALANCE,
                            <<>>} }

----------------------------------------------------------------------------
(* Specification of parse_transactions, entered with self.lines holding a  *)
(* list of lines and self.transactions as the constructor left it          *)

NoCall == [fn |-> "none", args |-> <<>>, ret |-> <<>>]

\* the bank statement parser has no Markdown tool and writes no file here
NoConfig == [ai_processing |-> "none"]
NoFiles == <<>>

Init ==
    /\ config = NoConfig
    /\ files = NoFiles
    /\ src \in Documents
    /\ lines = [k \in DOMAIN src |-> LineOf(src[k])]
    /\ \E detected \in {detect_bank_type(content_sample(lines))} :
          bank_type = detected.bank_type /\ confidence = detected.confidence
    /\ pc = "start"
    /\ i = 0
    /\ transactions = <<>>
    /\ origin = <<>>
    /\ prev_line_was_transaction = FALSE
    /\ prev_transaction = 0
    /\ self_transactions = <<>>
    /\ call = NoCall

\* Start with the parse given up when no bank was detected
StartIfBankKnown ==
    /\ pc = "start"
    /\ IF bank_type = "UNKNOWN"
       THEN pc' = "done" /\ i' = i
       ELSE pc' = "primary" /\ i' = find_transaction_start(lines)
    /\ UNCHANGED <<config, files, lines, src, bank_type, confidence, transactions, origin,
                   prev_line_was_transaction, prev_transaction, self_transactions, call>>

\* start_line = self.find_transaction_start(); the loop begins there
Start ==
    /\ pc = "start"
    /\ pc' = "primary"
    /\ i' = find_transaction_start(lines)
    /\ UNCHANGED <<config, files, lines, src, bank_type, confidence, transactions, origin, prev_line_was_transaction,
                   prev_transaction, self_transactions, call>>

\* a loop iteration that merges the line into the previous transaction
MergeContinuation ==
    /\ pc = "primary"
    /\ i < Len(lines)
    /\ IsContinuation(lines[i + 1])
    /\ transactions' = [transactions EXCEPT ![prev_transaction] =
                            AppendContinuation(@, lines[i + 1])]
    /\ i' = i + 1
    /\ UNCHANGED <<config, files, lines, src, bank_type, confidence, pc, origin, prev_line_was_transaction,
                   prev_transaction, self_transactions, call>>

\* ParseLine with the transaction put at the head of the list
ParseLinePrepend ==
    /\ pc = "primary"
    /\ i < Len(lines)
    /\ ~IsContinuation(lines[i + 1])
    /\ parse_transaction_line(lines[i + 1]) # <<>>
    /\ transactions' = <<parse_transaction_line(lines[i + 1])[1]>> \o transactions
    /\ origin' = <<[line |-> i, path |-> PathOf(lines[i + 1])]>> \o origin
    /\ prev_line_was_transaction' = TRUE
    /\ prev_transaction' = 1
    /\ i' = i + 1
    /\ UNCHANGED <<config, files, lines, src, bank_type, confidence, pc, self_transactions, call>>

\* a loop iteration in which parse_transaction_line returns a transaction
ParseLine ==
    /\ pc = "primary"
    /\ i < Len(lines)
    /\ ~IsContinuation(lines[i + 1])
    /\ parse_transaction_line(lines[i + 1]) # <<>>
    /\ transactions' = Append(transactions, parse_transaction_line(lines[i + 1])[1])
    /\ origin' = Append(origin, [line |-> i, path |-> PathOf(lines[i + 1])])
    /\ prev_line_was_transaction' = TRUE
    /\ prev_transaction' = Len(transactions) + 1
    /\ i' = i + 1
    /\ UNCHANGED <<config, files, lines, src, bank_type, confidence, pc, self_transactions, call>>

\* SkipLine with the carry-over left as it was
SkipLineKeepCarry ==
    /\ pc = "primary"
    /\ i < Len(lines)
    /\ ~IsContinuation(lines[i + 1])
    /\ parse_transaction_line(lines[i + 1]) = <<>>
    /\ i' = i + 1
    /\ UNCHANGED <<config, files, lines, src, bank_type, confidence, pc, transactions, origin,
                   prev_line_was_transaction, prev_transaction, self_transactions, call>>

\* a loop iteration in which parse_transaction_line returns None
SkipLine ==
    /\ pc = "primary"
    /\ i < Len(lines)
    /\ ~IsContinuation(lines[i + 1])
    /\ parse_transaction_line(lines[i + 1]) = <<>>
    /\ prev_line_was_transaction' = FALSE
    /\ prev_transaction' = 0
    /\ i' = i + 1
    /\ UNCHANGED <<config, files, lines, src, bank_type, confidence, pc, transactions, origin, self_transactions, call>>

\* EndPrimary with the fallback run whatever the primary pass found
EndPrimaryAlwaysFallback ==
    /\ pc = "primary"
    /\ i >= Len(lines)
    /\ self_transactions' = transactions
    /\ pc' = "fallback" /\ i' = 0 /\ transactions' = <<>> /\ origin' = <<>>
    /\ UNCHANGED <<config, files, lines, src, bank_type, confidence, prev_line_was_transaction, prev_transaction, call>>

\* after the loop: self.transactions = transactions, and the fallback when
\* the list is empty
EndPrimary ==
    /\ pc = "primary"
    /\ i >= Len(lines)
    /\ self_transactions' = transactions
    /\ IF transactions # <<>>
       THEN pc' = "done" /\ UNCHANGED <<i, transactions, origin>>
       ELSE pc' = "fallback" /\ i' = 0 /\ transactions' = <<>> /\ origin' = <<>>
    /\ UNCHANGED <<config, files, lines, src, bank_type, confidence, prev_line_was_transaction, prev_transaction, call>>

\* an iteration of the fallback loop that appends a transaction
FallbackAppend ==
    /\ pc = "fallback"
    /\ i < Len(lines)
    /\ fallback_line(lines[i + 1]) # <<>>
    /\ transactions' = Append(transactions, fallback_line(lines[i + 1])[1])
    /\ origin' = Append(origin, [line |-> i, path |-> "fallback"])
    /\ i' = i + 1
    /\ UNCHANGED <<config, files, lines, src, bank_type, confidence, pc, prev_line_was_transaction, prev_transaction,
                   self_transactions, call>>

\* an iteration of the fallback loop that passes over the line
FallbackSkip ==
    /\ pc = "fallback"
    /\ i < Len(lines)
    /\ fallback_line(lines[i + 1]) = <<>>
    /\ i' = i + 1
    /\ UNCHANGED <<config, files, lines, src, bank_type, confidence, pc, transactions, origin, prev_line_was_transaction,
                   prev_transaction, self_transactions, call>>

\* the end of parse_transactions_fallback: self.transactions = transactions
EndFallback ==
    /\ pc = "fallback"
    /\ i >= Len(lines)
    /\ self_transactions' = transactions
    /\ pc' = "done"
    /\ UNCHANGED <<config, files, lines, src, bank_type, confidence, i, transactions, origin, prev_line_was_transaction,
                   prev_transaction, call>>

Next ==
    \/ Start
    \/ MergeContinuation
    \/ ParseLine
    \/ SkipLine
    \/ EndPrimary
    \/ FallbackAppend
    \/ FallbackSkip
    \/ EndFallback

Spec == Init /\ [][Next]_vars

----------------------------------------------------------------------------
(* Specification of single calls on one line: is_valid_transaction_line    *)
(* and parse_transaction_line                                              *)

InitLine ==
    /\ config = NoConfig
    /\ files = NoFiles
    /\ src \in {<<s>> : s \in LineSources}
    /\ lines = <<LineOf(src[1])>>
    /\ bank_type = "UNKNOWN"
    /\ confidence = <<0, 1>>
    /\ pc = "call"
    /\ i = 0
    /\ transactions = <<>>
    /\ origin = <<>>
    /\ prev_line_was_transaction = FALSE
    /\ prev_transaction = 0
    /\ self_transactions = <<>>
    /\ call = NoCall

CallValidate ==
    /\ pc = "call"
    /\ pc' = "return"
    /\ call' = [fn   |-> "is_valid_transaction_line",
                args |-> <<lines[1]>>,
                ret  |-> <<is_valid_transaction_line(lines[1])>>]
    /\ UNCHANGED <<config, files, lines, src, bank_type, confidence, i, transactions, origin, prev_line_was_transaction,
                   prev_transaction, self_transactions>>

CallParse ==
    /\ pc = "call"
    /\ pc' = "return"
    /\ call' = [fn   |-> "parse_transaction_line",
                args |-> <<lines[1]>>,
                ret  |-> parse_transaction_line(lines[1])]
    /\ UNCHANGED <<config, files, lines, src, bank_type, confidence, i, transactions, origin, prev_line_was_transaction,
                   prev_transaction, self_transactions>>

CallNormalize ==
    /\ pc = "call"
    /\ pc' = "return"
    /\ call' = [fn   |-> "normalize_text",
                args |-> <<lines[1]>>,
                ret  |-> <<normalize_text(lines[1])>>]
    /\ UNCHANGED <<config, files, lines, src, bank_type, confidence, i, transactions, origin, prev_line_was_transaction,
                   prev_transaction, self_transactions>>

CallCounterparty ==
    /\ pc = "call"
    /\ pc' = "return"
    /\ call' = [fn   |-> "parse_counterparty_info",
                args |-> <<lines[1]>>,
                ret  |-> <<parse_counterparty_info(lines[1])>>]
    /\ UNCHANGED <<config, files, lines, src, bank_type, confidence, i, transactions, origin,
                   prev_line_was_transaction, prev_transaction, self_transactions>>

NextLine == CallValidate \/ CallParse \/ CallNormalize \/ CallCounterparty

SpecLine == InitLine /\ [][NextLine]_vars

----------------------------------------------------------------------------
(* Specification of single calls of classify_transaction *)

A_0        == [neg |-> FALSE, int |-> <<>>, frac |-> <<>>]
A_49999_99 == [neg |-> FALSE, int |-> <<"4","9","9","9","9">>, frac |-> <<"9","9">>]
A_50000    == [neg |-> FALSE, int |-> <<"5","0","0","0","0">>, frac |-> <<>>]
A_300000   == [neg |-> FALSE, int |-> <<"3","0","0","0","0","0">>, frac |-> <<>>]

TypeLabels ==
    { T_TRANSFER, T_XX, <<"P","O","S">>, <<>>,
      <<"u8fd8","u6b3e","u5de5","u8d44">>,             \* repayment + salary keywords
      <<"u624b","u7eed","u8d39">> }                    \* fee

Counterparties ==
    { <<>>, <<" ">>, <<" "," ">>, <<TAB>>, N_LIAO, N_DATE_CORP,
      <<"u67d0","u516c","u53f8">>,                     \* corporate marker
      <<"x"," ","u5de5","u8d44">>,                     \* salary keyword
      <<"A","T","M","u673a">> }                        \* withdrawal keyword, upper case

Amounts == {A_0, A_49999_99, A_50000, A_300000}

InitClassify ==
    /\ config = NoConfig
    /\ files = NoFiles
    /\ src = <<>>
    /\ lines = <<>>
    /\ bank_type = "UNKNOWN"
    /\ confidence = <<0, 1>>
    /\ pc = "call"
    /\ i = 0
    /\ transactions = <<>>
    /\ origin = <<>>
    /\ prev_line_was_transaction = FALSE
    /\ prev_transaction = 0
    /\ self_transactions = <<>>
    /\ call \in [fn : {"classify_transaction"},
                 args : TypeLabels \X Counterparties \X Amounts,
                 ret : {<<>>}]

CallClassify ==
    /\ pc = "call"
    /\ pc' = "return"
    /\ call' = [call EXCEPT !.ret =
                    <<classify_transaction(call.args[1], call.args[2], call.args[3])>>]
    /\ UNCHANGED <<config, files, lines, src, bank_type, confidence, i, transactions, origin, prev_line_was_transaction,
                   prev_transaction, self_transactions>>

NextClassify == CallClassify

SpecClassify == InitClassify /\ [][NextClassify]_vars


----------------------------------------------------------------------------
(* Specification of the bank detection of load_file: the lines are words   *)
(* and phrases, some of them keywords of a bank in either case             *)

MaxWords == 2       \* lines in a sample

W_ICBC         == <<"I","C","B","C">>
W_ICBC_ZH      == <<"u5de5","u5546","u94f6","u884c">>
W_ICBC_FULL    == <<"I","n","d","u","s","t","r","i","a","l"," ","a","n","d"," ","C","o","m","m","e","r","c","i","a","l">>
W_CCB          == <<"c","c","b">>
W_CIB          == <<"c","i","b">>
W_CIB_FULL     == <<"I","n","d","u","s","t","r","i","a","l"," ","B","a","n","k">>
W_CIB_ZH       == <<"u5174","u4e1a","u94f6","u884c">>
W_JIUJIANG_ZH  == <<"u4e5d","u6c5f","u94f6","u884c">>
W_JIUJIANG     == <<"J","i","u","J","i","a","n","g">>
W_POST         == <<"p","o","s","t","a","l"," ","s","a","v","i","n","g","s">>
W_POST_ZH      == <<"u90ae","u653f","u50a8","u84c4">>
W_HELLO        == <<"h","e","l","l","o">>
W_ABCMB        == <<"A","B","C","m","b">>

SampleWords ==
    {W_ICBC, W_ICBC_ZH, W_ICBC_FULL, W_CCB, W_CIB, W_CIB_FULL, W_CIB_ZH,
     W_JIUJIANG_ZH, W_JIUJIANG, W_POST, W_POST_ZH, W_HELLO, W_ABCMB}

InitDetect ==
    /\ config = NoConfig
    /\ files = NoFiles
    /\ src \in UNION {[1..n -> {Text(w) : w \in SampleWords}] : n \in 0..MaxWords}
    /\ lines = [k \in DOMAIN src |-> LineOf(src[k])]
    /\ bank_type = "UNKNOWN"
    /\ confidence = <<0, 1>>
    /\ pc = "call"
    /\ i = 0
    /\ transactions = <<>>
    /\ origin = <<>>
    /\ prev_line_was_transaction = FALSE
    /\ prev_transaction = 0
    /\ self_transactions = <<>>
    /\ call = NoCall

\* content_sample = ' '.join(self.lines[:50]);
\* self.bank_type, self.confidence = detect_bank_type(content_sample)
DetectBank ==
    /\ pc = "call"
    /\ pc' = "return"
    /\ \E detected \in {detect_bank_type(content_sample(lines))} :
          /\ call' = [fn   |-> "detect_bank_type",
                      args |-> <<content_sample(lines)>>,
                      ret  |-> <<detected>>]
          /\ bank_type' = detected.bank_type
          /\ confidence' = detected.confidence
    /\ UNCHANGED <<config, files, lines, src, i, transactions, origin, prev_line_was_transaction,
                   prev_transaction, self_transactions>>

NextDetect == DetectBank

SpecDetect == InitDetect /\ [][NextDetect]_vars

----------------------------------------------------------------------------
(* Specification of load_file: a parser as constructed, and a file of up   *)
(* to MaxLines text lines separated by line feeds, with or without a line  *)
(* feed at the end                                                         *)

FileLines ==
    { Txn(D_20250113, CNY, A_300000_00, A_304294_31, TRUE, 1, T_TRANSFER, N_LIAO_ACCT),
      Txn(D_20250114, CNY, A_M1234_56, A_1000_00, FALSE, 1, T_XX, N_ZHANG),
      Text(X_CONTINUATION),
      Text(X_HEADER),
      Text(X_BANK) }

InitLoad ==
    /\ config = NoConfig
    /\ files = NoFiles
    /\ src \in UNION {[1..n -> FileLines] : n \in 0..MaxLines}
    /\ lines = <<>>
    /\ bank_type = "UNKNOWN"
    /\ confidence = <<0, 1>>
    /\ pc = "call"
    /\ i = 0
    /\ transactions = <<>>
    /\ origin = <<>>
    /\ prev_line_was_transaction = FALSE
    /\ prev_transaction = 0
    /\ self_transactions = <<>>
    /\ \E newline \in {<<>>, <<LF>>} :
          call = [fn   |-> "load_file",
                  args |-> <<JoinLF([k \in DOMAIN src |-> LineOf(src[k])]) \o newline>>,
                  ret  |-> <<>>]

\* the lines load_file keeps of the content it read
LoadedLines(content) == IF content # <<>> THEN splitlines(content) ELSE <<>>

\* load_file on a file that opens and decodes: content = clean_text(f.read());
\* self.lines = content.splitlines(); False when there is no line; else the
\* bank detection on the first lines, and True
LoadFile ==
    /\ pc = "call"
    /\ pc' = "return"
    /\ \E loaded \in {LoadedLines(clean_text(call.args[1]))} :
          /\ lines' = loaded
          /\ call' = [call EXCEPT !.ret = <<loaded # <<>>>>]
          /\ \E detected \in {detect_bank_type(content_sample(loaded))} :
                IF loaded = <<>>
                THEN UNCHANGED <<bank_type, confidence>>
                ELSE bank_type' = detected.bank_type /\ confidence' = detected.confidence
    /\ UNCHANGED <<config, files, src, i, transactions, origin, prev_line_was_transaction,
                   prev_transaction, self_transactions>>

NextLoad == LoadFile

SpecLoad == InitLoad /\ [][NextLoad]_vars

----------------------------------------------------------------------------
(* The Markdown tool (src/python-tools/markdown-format-adjust.py):         *)
(* heading levels of an AI response                                        *)

Max(S) == CHOOSE x \in S : \A y \in S : x >= y

\* s.startswith(prefix)
StartsWith(s, prefix) == Len(s) >= Len(prefix) /\ SubSeq(s, 1, Len(prefix)) = prefix

FENCE == <<BACKTICK, BACKTICK, BACKTICK>>

\* line.strip().startswith('```')
IsFence(line) == StartsWith(strip(line), FENCE)

\* self.state["in_code_block"] when the loop reaches line k: every fence
\* line before it has toggled the flag, which starts False
InCodeBlock(ls, k) == Cardinality({j \in 1..(k - 1) : IsFence(ls[j])}) % 2 = 1

\* re.match(r'^(#+)\s+', line): the length of group 1, 0 when no match
HeadingLevel(line) ==
    LET h == Span(line, 1, "#")
    IN  IF h >= 1 /\ Span(line, h + 1, "\\s") > h THEN h ELSE 0

\* re.match(r'^(#+)\s+(.+)$', line): <<>> when no match, else the length of
\* group 1 and group 2: the text after the whitespace, or the last
\* whitespace character when nothing follows a run of two or more
HeadingMatch(line) ==
    LET h == Span(line, 1, "#")
        w == Span(line, h + 1, "\\s")
    IN  IF h >= 1 /\ w > h /\ Len(line) >= h + 2
        THEN <<[level |-> h,
                title |-> IF w < Len(line) THEN SubSeq(line, w + 1, Len(line))
                          ELSE SubSeq(line, Len(line), Len(line))]>>
        ELSE <<>>

\* '#' * n
Hashes(n) == [k \in 1..n |-> "#"]

\* _analyze_response_headings: the heading levels outside code blocks
heading_levels_of(response) ==
    LET ls == SplitLF(response)
        at == {k \in 1..Len(ls) : ~IsFence(ls[k]) /\ ~InCodeBlock(ls, k) /\ HeadingLevel(ls[k]) > 0}
    IN  [n \in 1..Cardinality(at) |->
            HeadingLevel(ls[CHOOSE k \in at : Cardinality({x \in at : x < k}) = n - 1])]

\* the loop shared by both modes: fence lines and the lines of a code block
\* are appended as they are, a heading of level n gets the level new_level[n]
MapHeadings(content, new_level) ==
    LET ls == SplitLF(content)
    IN  JoinLF([k \in 1..Len(ls) |->
            IF IsFence(ls[k]) \/ InCodeBlock(ls, k) \/ HeadingMatch(ls[k]) = <<>>
            THEN ls[k]
            ELSE Hashes(new_level[HeadingMatch(ls[k])[1].level]) \o <<" ">>
                     \o HeadingMatch(ls[k])[1].title])

\* the level _smart_compress_headings gives a heading
SmartLevel(original_level, heading_levels, cfg) ==
    LET levels         == {heading_levels[k] : k \in DOMAIN heading_levels}
        min_original   == Min(levels)
        original_range == Max(levels) - min_original + 1
        min_allowed    == cfg.ai_min_level
        max_allowed    == cfg.ai_max_level
        allowed_range  == max_allowed - min_allowed + 1
        offset         == min_allowed - min_original
        compressed_range == Max({2, (allowed_range * cfg.compress_ratio[1]) \div cfg.compress_ratio[2]})
        new_level      == IF original_range <= allowed_range
                          THEN original_level + offset
                          ELSE min_allowed + ((original_level - min_original) * (compressed_range - 1))
                                                 \div Max({1, original_range - 1})
    IN  Max({min_allowed, Min({max_allowed, new_level})})

_smart_compress_headings(content, heading_levels, cfg) ==
    IF heading_levels = <<>> THEN content
    ELSE MapHeadings(content, [level \in 1..Len(content) |-> SmartLevel(level, heading_levels, cfg)])

\* the level _remap_ai_headings gives a heading
RemapLevel(original_level, cfg) ==
    Min({6, Max({cfg.ai_min_level, original_level + cfg.ai_min_level - 1})})

_remap_ai_headings(content, cfg) ==
    MapHeadings(content, [level \in 1..Len(content) |-> RemapLevel(level, cfg)])

_process_ai_response(response, heading_levels, cfg) ==
    IF response = <<>> THEN <<>>
    ELSE IF cfg.ai_processing = "preserve" THEN response
    ELSE IF cfg.ai_processing = "remap" THEN _remap_ai_headings(response, cfg)
    ELSE _smart_compress_headings(response, heading_levels, cfg)

----------------------------------------------------------------------------
(* Specification of the processing of one AI response *)

\* self.config as main builds it from the command line, with the defaults
\* of __init__ for the keys the command line does not set
MainConfig(mode, min_level, max_level, tolerance, overwrite) ==
    [ai_processing         |-> mode,
     compress_ratio        |-> <<7, 10>>,
     ai_min_level          |-> min_level,
     ai_max_level          |-> max_level,
     tolerance_lines       |-> tolerance,
     min_instruction_lines |-> 3,
     overwrite             |-> overwrite,
     interactive           |-> FALSE,
     suffix                |-> <<"_", "a", "d", "j", "u", "s", "t", "e", "d">>,
     input_file            |-> <<>>,
     output_file           |-> <<>>]

\* the --min-level and --max-level pairs of the model: the default, a
\* narrower range, and a range below the default
LevelRanges == {<<3, 6>>, <<3, 4>>, <<1, 2>>}

MaxResponseLines == 3

R_H1    == <<"#", " ", "a">>
R_H2    == <<"#", "#", " ", "b">>
R_H3    == <<"#", "#", "#", " ", "c">>
R_H6    == <<"#", "#", "#", "#", "#", "#", " ", "f">>
R_FENCE == FENCE \o <<"p", "y">>
R_TEXT  == <<"t", "e", "x", "t">>

ResponseLines == {R_H1, R_H2, R_H3, R_H6, R_FENCE, R_TEXT}

\* the state the bank statement parser's variables keep in the Markdown tool
NoParser ==
    /\ src = <<>>
    /\ bank_type = "UNKNOWN"
    /\ confidence = <<0, 1>>
    /\ i = 0
    /\ transactions = <<>>
    /\ origin = <<>>
    /\ prev_line_was_transaction = FALSE
    /\ prev_transaction = 0
    /\ self_transactions = <<>>

InitResponse ==
    /\ NoParser
    /\ files = NoFiles
    /\ pc = "call"
    /\ call = NoCall
    /\ lines \in UNION {[1..n -> ResponseLines] : n \in 1..MaxResponseLines}
    /\ \E mode \in {"smart_compress", "remap", "preserve"}, range \in LevelRanges :
          config = MainConfig(mode, range[1], range[2], 2, FALSE)

\* the end of _process_instruction_smart on the response JoinLF(lines):
\* _analyze_response_headings, then _process_ai_response
CallProcessResponse ==
    /\ pc = "call"
    /\ pc' = "return"
    /\ \E response \in {JoinLF(lines)} :
          call' = [fn   |-> "_process_ai_response",
                   args |-> <<response>>,
                   ret  |-> <<_process_ai_response(response, heading_levels_of(response), config)>>]
    /\ UNCHANGED <<config, files, lines, src, bank_type, confidence, i, transactions, origin,
                   prev_line_was_transaction, prev_transaction, self_transactions>>

NextResponse == CallProcessResponse

SpecResponse == InitResponse /\ [][NextResponse]_vars

----------------------------------------------------------------------------
(* detect_dialogs *)

DIALOG == <<"u5bf9", "u8bdd">>     \* the word for "dialog" in the patterns

\* the text after r'^#{1,2}\s+' at the start of the line: <<>> when the
\* line does not start so, else the rest of the line in a one-element list
AfterHashes(line, lo, hi) ==
    LET h == Span(line, 1, "#")
        w == Span(line, h + 1, "\\s")
    IN  IF h \in lo..hi /\ w > h THEN <<SubSeq(line, w + 1, Len(line))>> ELSE <<>>

\* r'([A-Za-z0-9]+)\s+(.+)$' from position p of the text
IdThenTitle(rest, p) ==
    LET a == Span(rest, p, "[A-Za-z0-9]")
    IN  a >= p /\ Len(rest) >= a + 2 /\ IsSpace(rest[a + 1])

\* DIALOG_PATTERNS, in their order, on the text after the hashes
DialogPattern(rest, n) ==
    CASE n = 1 -> StartsWith(rest, DIALOG \o <<"-">>) /\ IdThenTitle(rest, 4)
      [] n = 2 -> StartsWith(rest, DIALOG) /\ IdThenTitle(rest, 3)
      [] n = 3 -> LET a == Span(rest, 1, "[A-Za-z0-9]")
                      w == Span(rest, a + 1, "\\s")
                  IN  /\ a >= 1 /\ w > a
                      /\ StartsWith(SubSeq(rest, w + 1, Len(rest)), DIALOG)
                      /\ Len(rest) >= w + 4 /\ IsSpace(rest[w + 3])
      [] n = 4 -> StartsWith(rest, DIALOG) /\ Len(rest) >= 3

\* some pattern of DIALOG_PATTERNS matches the line
IsDialogHeading(line) ==
    \E rest \in {AfterHashes(line, 1, 2)} :
        rest # <<>> /\ \E n \in 1..4 : DialogPattern(rest[1], n)

NoDialog == [start_line |-> -1, lines |-> <<>>]

\* the dialog a heading at index k (0-based) starts
NewDialog(ls, k) == [start_line |-> k, lines |-> <<ls[k + 1]>>]

\* a dialog as it is appended to the result
Closed(dialog) == [start_line |-> dialog.start_line, content |-> JoinLF(dialog.lines)]

\* the loop of detect_dialogs from index k (0-based): current is
\* current_dialog with its dialog_lines, NoDialog for None
RECURSIVE DialogLoop(_, _, _, _, _)
DialogLoop(ls, k, current, in_dialog, dialogs) ==
    IF k >= Len(ls)
    THEN IF current # NoDialog THEN Append(dialogs, Closed(current)) ELSE dialogs
    ELSE IF IsDialogHeading(ls[k + 1])
    THEN DialogLoop(ls, k + 1, NewDialog(ls, k), TRUE,
                    IF current # NoDialog THEN Append(dialogs, Closed(current)) ELSE dialogs)
    ELSE IF in_dialog
    THEN IF k + 1 < Len(ls) /\ IsDialogHeading(ls[k + 2])
         THEN DialogLoop(ls, k + 1, NoDialog, FALSE, Append(dialogs, Closed(current)))
         ELSE DialogLoop(ls, k + 1, [current EXCEPT !.lines = Append(@, ls[k + 1])], TRUE, dialogs)
    ELSE DialogLoop(ls, k + 1, current, in_dialog, dialogs)

\* the loop of _detect_alternative_dialogs: a dialog starts at every line
\* matching r'^#{2,3}\s+'
RECURSIVE AlternativeLoop(_, _, _, _)
AlternativeLoop(ls, k, current, dialogs) ==
    IF k >= Len(ls)
    THEN IF current # NoDialog THEN Append(dialogs, Closed(current)) ELSE dialogs
    ELSE IF AfterHashes(ls[k + 1], 2, 3) # <<>>
    THEN AlternativeLoop(ls, k + 1, NewDialog(ls, k),
                         IF current # NoDialog THEN Append(dialogs, Closed(current)) ELSE dialogs)
    ELSE IF current # NoDialog
    THEN AlternativeLoop(ls, k + 1, [current EXCEPT !.lines = Append(@, ls[k + 1])], dialogs)
    ELSE AlternativeLoop(ls, k + 1, current, dialogs)

detect_dialogs(content) ==
    LET ls      == SplitLF(content)
        dialogs == DialogLoop(ls, 0, NoDialog, FALSE, <<>>)
    IN  IF dialogs = <<>> THEN AlternativeLoop(ls, 0, NoDialog, <<>>) ELSE dialogs

----------------------------------------------------------------------------
(* Specification of detect_dialogs on a document *)

MaxDocLines == 4

G_DIALOG_1 == <<"#", "#", " ">> \o DIALOG \o <<"-", "V", "1", " ", "A">>
G_DIALOG_2 == <<"#", " ">> \o DIALOG \o <<" ", "B">>
G_DIALOG_3 == <<"#", "#", " ", "V", "3", " ">> \o DIALOG \o <<" ", "C">>
G_BODY     == <<"b", "o", "d", "y">>
G_SUB      == <<"#", "#", "#", " ", "s", "u", "b">>
G_BLANK    == <<>>

DocumentLines == {G_DIALOG_1, G_DIALOG_2, G_DIALOG_3, G_BODY, G_SUB, G_BLANK}

InitDialogs ==
    /\ NoParser
    /\ files = NoFiles
    /\ pc = "call"
    /\ call = NoCall
    /\ lines \in UNION {[1..n -> DocumentLines] : n \in 1..MaxDocLines}
    /\ config = MainConfig("smart_compress", 3, 6, 2, FALSE)

CallDetectDialogs ==
    /\ pc = "call"
    /\ pc' = "return"
    /\ \E content \in {JoinLF(lines)} :
          call' = [fn |-> "detect_dialogs", args |-> <<content>>, ret |-> <<detect_dialogs(content)>>]
    /\ UNCHANGED <<config, files, lines, src, bank_type, confidence, i, transactions, origin,
                   prev_line_was_transaction, prev_transaction, self_transactions>>

NextDialogs == CallDetectDialogs

SpecDialogs == InitDialogs /\ [][NextDialogs]_vars

----------------------------------------------------------------------------
(* _process_instruction_smart and _detect_boundary_smart *)

\* RESPONSE_MARKERS: the markers compared with the whole stripped line
exact_response_markers ==
    <<<<"u1f916"," ","A","I","u54cd","u5e94">>,
      <<"d","d","-","A","I","u56de","u590d">>,
      <<"#","#"," ","A","I","u54cd","u5e94">>,
      <<"#","#","#"," ","u1f916"," ","u54cd","u5e94">>,
      <<"#","#","#"," ","u54cd","u5e94">>,
      <<"-","-","-"," ","A","I","u56de","u590d","u5f00","u59cb"," ","-","-","-">>>>

\* RESPONSE_MARKERS: the markers looked for inside the line
contained_response_markers ==
    <<<<"u9488","u5bf9","u4f60">>,
      <<"u6838","u5fc3","u7ed3","u8bba","u662f">>,
      <<"u4e3a","u4f60","u68b3","u7406">>,
      <<"u6839","u636e","u4f60">>,
      <<"u4ee5","u4e0b","u662f">>,
      <<"A","I","u56de","u590d">>,
      <<"A","I","u56de","u7b54">>,
      <<"u1f916","u56de","u590d">>,
      <<"u1f916","u56de","u7b54">>,
      <<"u56de","u7b54">>,
      <<"R","e","s","p","o","n","s","e",":">>,
      <<"O","u","t","p","u","t",":">>>>

\* the markers of an instruction title line (line 1527)
title_markers ==
    <<<<"u6307","u4ee4">>,
      <<"I","n","s","t","r","u","c","t","i","o","n">>,
      <<"Q",":">>,
      <<"u95ee","u9898">>,
      <<"u6211","u7684","u6307","u4ee4">>>>

\* the punctuation that keeps a line in the response (line 1547)
tolerance_punctuation ==
    <<<<".">>,
      <<"u3002">>,
      <<"!">>,
      <<"uff01">>,
      <<"?">>,
      <<"uff1f">>,
      <<":">>,
      <<"uff1a">>>>

\* the openers that keep a line in the response (line 1548)
tolerance_markers ==
    <<<<"u9996","u5148">>,
      <<"u7b2c","u4e00">>,
      <<"u9488","u5bf9">>,
      <<"u6839","u636e">>,
      <<"u1f4ca">>,
      <<"u1f4a1">>,
      <<"u2705">>>>

\* the punctuation of the look-back (line 1614)
sentence_punctuation ==
    <<<<".">>,
      <<"u3002">>,
      <<"!">>,
      <<"uff01">>,
      <<"?">>,
      <<"uff1f">>>>

\* the openers of the look-back (line 1616)
ai_starters ==
    <<<<"u9488","u5bf9">>,
      <<"u6839","u636e">>,
      <<"u9996","u5148">>,
      <<"u5173","u4e8e">>,
      <<"u8fd9","u4e2a","u65b9","u6848">>,
      <<"u7efc","u4e0a","u6240","u8ff0">>>>

\* the marks of a question (line 1626)
question_indicators ==
    <<<<"uff1f">>,
      <<"?">>,
      <<"u5417">>,
      <<"u5462">>,
      <<"u5982","u4f55">>,
      <<"u600e","u6837">>,
      <<"u4ec0","u4e48">>,
      <<"u4e3a","u4ec0","u4e48">>>>

\* the openers of an answer (line 1635)
answer_indicators ==
    <<<<"u9996","u5148">>,
      <<"u7b2c","u4e00">>,
      <<"u9488","u5bf9">>,
      <<"u6839","u636e">>,
      <<"u8fd9","u4e2a">>,
      <<"u5173","u4e8e">>,
      <<"u5bf9","u4e8e">>>>

\* the emoji of the last four AI_CONTENT_PATTERNS
emoji_titles == {"u1f4ca", "u1f4a1", "u2705", "u1f680"}

\* re.match(pattern, line) for some pattern of AI_CONTENT_PATTERNS
MatchesAIContent(line) ==
    \/ AfterHashes(line, 1, 6) # <<>>
    \/ Len(line) >= 2 /\ line[1] \in {">", "-", "*"} /\ IsSpace(line[2])
    \/ \E d \in {Span(line, 1, "\\d")} :
          d >= 1 /\ Len(line) >= d + 2 /\ line[d + 1] = "." /\ IsSpace(line[d + 2])
    \/ StartsWith(line, FENCE)
    \/ Span(line, 1, "[|+-]") >= 3
    \/ /\ StartsWith(line, <<"*", "*">>) \/ StartsWith(line, <<"_", "_">>)
       /\ \E k \in 4..(Len(line) - 1) :
             SubSeq(line, k, k + 1) \in {<<"*", "*">>, <<"_", "_">>}
    \/ Len(line) >= 2 /\ line[1] \in emoji_titles /\ IsSpace(line[2])

\* strategy 1: the lines (0-based) that hold a response marker
MarkerLines(ls, start_idx, cfg) ==
    {k \in start_idx..(Len(ls) - 1) :
        \/ \E n \in DOMAIN exact_response_markers : strip(ls[k + 1]) = exact_response_markers[n]
        \/ ContainsAny(ls[k + 1], contained_response_markers) /\ k > start_idx + cfg.min_instruction_lines}

\* strategy 2: the non-blank lines that look like AI content
AIContentLines(ls, start_idx) ==
    {k \in start_idx..(Len(ls) - 1) : strip(ls[k + 1]) # <<>> /\ MatchesAIContent(ls[k + 1])}

\* the look-back from line k: the nearest of the three lines before it that
\* is short, has no sentence punctuation and holds an AI opener
LookBack(ls, start_idx, k) ==
    LET back == {j \in 1..Min({3, k - start_idx}) :
                    \E prev_line \in {strip(ls[k - j + 1])} :
                        /\ Len(prev_line) < 50
                        /\ ~ContainsAny(prev_line, sentence_punctuation)
                        /\ ContainsAny(prev_line, ai_starters)}
    IN  IF back = {} THEN k ELSE k - Min(back)

\* strategy 3: the lines that open an answer, when the first 20 lines of
\* the instruction hold a mark of a question
AnswerLines(ls, start_idx) ==
    IF \E k \in start_idx..(Min({start_idx + 20, Len(ls)}) - 1) : ContainsAny(ls[k + 1], question_indicators)
    THEN {k \in start_idx..(Len(ls) - 1) :
            \E line \in {strip(ls[k + 1])} :
                Len(line) > 20 /\ ContainsAny(SubSeq(line, 1, 10), answer_indicators)}
    ELSE {}

_detect_boundary_smart(ls, start_idx, cfg) ==
    IF MarkerLines(ls, start_idx, cfg) # {} THEN Min(MarkerLines(ls, start_idx, cfg))
    ELSE IF AIContentLines(ls, start_idx) # {}
    THEN LookBack(ls, start_idx, Min(AIContentLines(ls, start_idx)))
    ELSE IF AnswerLines(ls, start_idx) # {} THEN Min(AnswerLines(ls, start_idx))
    ELSE IF Len(ls) - start_idx > 30 THEN start_idx + ((Len(ls) - start_idx) * 3) \div 4
    ELSE Len(ls)

\* the tolerance test of a response line (lines 1546-1548)
MovesBack(line) ==
    \E line_text \in {strip(line)} :
        /\ Len(line_text) < 60
        /\ ~ContainsAny(line_text, tolerance_punctuation)
        /\ ~ContainsAny(line_text, tolerance_markers)

\* the elements of s at the indices of K, highest index first
RECURSIVE Reversed(_, _)
Reversed(s, K) ==
    IF K = {} THEN <<>> ELSE <<s[Max(K)]>> \o Reversed(s, K \ {Max(K)})

\* _process_instruction_smart on instruction["content"]: the two line lists
\* as they are joined at lines 1558-1559, and the fields it sets
_process_instruction_smart(content, cfg) ==
    LET ls           == SplitLF(content)
        start_idx    == IF ContainsAny(ls[1], title_markers) THEN 1 ELSE 0
        boundary_idx == _detect_boundary_smart(ls, start_idx, cfg)
        split_lines  == SubSeq(ls, boundary_idx + 1, Len(ls))
        lines_to_move == IF cfg.tolerance_lines > 0
                         THEN {j \in 1..Min({cfg.tolerance_lines, Len(split_lines)}) :
                                  MovesBack(split_lines[j])}
                         ELSE {}
        instruction_lines == SubSeq(ls, 1, boundary_idx) \o Reversed(split_lines, lines_to_move)
        response_lines    == KeepAt(split_lines, (1..Len(split_lines)) \ lines_to_move)
        response          == strip(JoinLF(response_lines))
    IN  [instruction_lines  |-> instruction_lines,
         response_lines     |-> response_lines,
         instruction        |-> strip(JoinLF(instruction_lines)),
         response           |-> response,
         has_ai_response    |-> response_lines # <<>>,
         heading_levels     |-> heading_levels_of(response),
         processed_response |-> _process_ai_response(response, heading_levels_of(response), cfg)]

----------------------------------------------------------------------------
(* Specification of _process_instruction_smart on an instruction block *)

MaxBlockLines == 4
LongBlockLines == 32

I_TITLE    == <<"#","#","#"," ","A","A","u6211","u7684","u6307","u4ee4">>
I_QUESTION == <<"q","1">>
I_MARKER   == <<"u1f916"," ","A","I","u54cd","u5e94">>
I_SHORT    == <<"s","h","o","r","t">>
I_SENTENCE == <<"l","o","n","g",".">>
I_ASK      == <<"u8fd9","u662f","u4ec0","u4e48","uff1f">>
I_ANSWER   == <<"u9996","u5148","uff0c","u8fd9","u4e2a","u95ee","u9898","u9700","u8981","u4ece","u591a","u4e2a","u89d2","u5ea6","u6765","u5206","u6790","u624d","u80fd","u5f97","u5230","u7ed3","u8bba">>

BlockLines == {I_TITLE, I_QUESTION, I_MARKER, I_SHORT, I_SENTENCE, I_ASK, I_ANSWER, R_H1}

\* a block long enough for the fallback strategy, with no marker in it
LongBlock == [k \in 1..LongBlockLines |-> I_SHORT]

InitInstruction ==
    /\ NoParser
    /\ files = NoFiles
    /\ pc = "call"
    /\ call = NoCall
    /\ lines \in UNION {[1..n -> BlockLines] : n \in 1..MaxBlockLines} \cup {LongBlock}
    /\ \E tolerance \in 0..2 : config = MainConfig("smart_compress", 3, 6, tolerance, FALSE)

CallProcessInstruction ==
    /\ pc = "call"
    /\ pc' = "return"
    /\ \E content \in {JoinLF(lines)} :
          call' = [fn   |-> "_process_instruction_smart",
                   args |-> <<content>>,
                   ret  |-> <<_process_instruction_smart(content, config)>>]
    /\ UNCHANGED <<config, files, lines, src, bank_type, confidence, i, transactions, origin,
                   prev_line_was_transaction, prev_transaction, self_transactions>>

NextInstruction == CallProcessInstruction

SpecInstruction == InitInstruction /\ [][NextInstruction]_vars

----------------------------------------------------------------------------
(* Specification of the command line mode of main: one processor, the     *)
(* input files processed in sequence                                       *)

MaxFiles == 3

F_A       == <<"a", ".", "m", "d">>
F_B       == <<"b", ".", "m", "d">>
F_MISSING == <<"x", ".", "m", "d">>

\* the names the command line may give, and those that exist on disk
FileNames == {F_A, F_B, F_MISSING}
Existing  == {F_A, F_B}

\* Path.stem: the name without its last suffix
Stem(name) ==
    LET dots == {k \in 2..Len(name) : name[k] = "."}
    IN  IF dots = {} THEN name ELSE SubSeq(name, 1, Max(dots) - 1)

\* input_path.parent / f"{input_path.stem}{suffix}.md", in the directory of
\* the input file
OutputPath(input_file, cfg) == Stem(input_file) \o cfg.suffix \o <<".", "m", "d">>

\* what read_file returns for an input file, and what process makes of it
\* for write_file
Source(name)    == <<"source", name>>
Organized(name) == <<"organized", name>>

\* the file system with content written at path
Written(fs, path, content) ==
    [p \in DOMAIN fs \cup {path} |-> IF p = path THEN content ELSE fs[p]]

InitBatch ==
    /\ NoParser
    /\ lines = <<>>
    /\ pc = "main"
    /\ files = [name \in Existing |-> Source(name)]
    /\ \E input_files \in UNION {[1..n -> FileNames] : n \in 1..MaxFiles} :
          call = [fn |-> "main", args |-> input_files, ret |-> <<0>>]
    /\ \E overwrite \in BOOLEAN : config = MainConfig("smart_compress", 3, 6, 2, overwrite)

\* one turn of the loop of main: process(input_file), with write_file at
\* its end; every exception is caught in process, which then returns False
ProcessFile ==
    /\ pc = "main"
    /\ i < Len(call.args)
    /\ i' = i + 1
    /\ LET input_file  == call.args[i + 1]
           output_file == IF config.output_file = <<>>
                          THEN OutputPath(input_file, config)
                          ELSE config.output_file
       IN  IF input_file \notin DOMAIN files
           THEN \* FileNotFoundError at line 1810
                /\ config' = [config EXCEPT !.input_file = input_file]
                /\ UNCHANGED <<files, call>>
           ELSE /\ config' = [config EXCEPT !.input_file = input_file, !.output_file = output_file]
                /\ IF output_file \in DOMAIN files /\ ~config.overwrite
                   THEN \* FileExistsError at line 1968
                        UNCHANGED <<files, call>>
                   ELSE /\ files' = Written(files, output_file, Organized(input_file))
                        /\ call' = [call EXCEPT !.ret = <<@[1] + 1>>]
    /\ UNCHANGED <<lines, src, bank_type, confidence, pc, transactions, origin,
                   prev_line_was_transaction, prev_transaction, self_transactions>>

\* the loop of main has ended
EndBatch ==
    /\ pc = "main"
    /\ i = Len(call.args)
    /\ pc' = "done"
    /\ UNCHANGED <<config, files, lines, src, bank_type, confidence, i, transactions, origin,
                   prev_line_was_transaction, prev_transaction, self_transactions, call>>

NextBatch == ProcessFile \/ EndBatch

SpecBatch == InitBatch /\ [][NextBatch]_vars
----------------------------------------------------------------------------
(* Properties *)

\* x and y denote the same number (-0.0 equals 0.0)
NumEq(x, y) ==
    /\ x.int = y.int /\ x.frac = y.frac
    /\ x.neg = y.neg \/ (x.int = <<>> /\ x.frac = <<>>)

\* the call of parse_transaction_line has returned
Parsed == pc = "return" /\ call.fn = "parse_transaction_line"

\* the call of is_valid_transaction_line has returned
Validated == pc = "return" /\ call.fn = "is_valid_transaction_line"

\* the call of classify_transaction has returned
Classified == pc = "return" /\ call.fn = "classify_transaction"

\* the line is written in the strict layout: date, currency, amount,
\* balance, type and a non-empty counterparty, with a valid date
StrictLine(s) ==
    /\ s.kind = "txn" /\ s.currency # <<>> /\ s.counterparty # <<>>
    /\ strptime_ok(s.date)

\* the line has the date, no currency, then amount, balance, type, counterparty
LenientLine(s) ==
    s.kind = "txn" /\ s.currency = <<>> /\ strptime_ok(s.date)

\* the transaction t recovers date, amount, direction and balance of line s
Recovers(t, s) ==
    /\ t.posting_date = s.date
    /\ t.date = strftime_ymd(s.date)
    /\ NumEq(t.balance, ValueOf(s.balance))
    /\ NumEq(t.amount, abs(ValueOf(s.amount)))
    /\ t.direction = IF ValueOf(s.amount).neg THEN EXPENSE ELSE INCOME

\* the same line with the thousands separators added or taken away
OtherCommas(s) == [s EXCEPT !.commas = ~@]

\* C1 (as stated): every line of the strict layout is parsed into a
\* transaction that recovers the date, the balance and the signed amount,
\* and the result does not depend on the thousands separators.
C1_EveryStrictLine ==
    (Parsed /\ StrictLine(src[1])) =>
        /\ call.ret # <<>>
        /\ Recovers(call.ret[1], src[1])
        /\ call.ret = parse_transaction_line(LineOf(OtherCommas(src[1])))

\* C1 (amended): every line of the strict layout that
\* is_valid_transaction_line accepts is parsed into a transaction that
\* recovers the date, the balance and the signed amount, and the result does
\* not depend on the thousands separators.
C1_ValidStrictLine ==
    (Parsed /\ StrictLine(src[1]) /\ is_valid_transaction_line(lines[1])) =>
        /\ call.ret # <<>>
        /\ Recovers(call.ret[1], src[1])
        /\ call.ret = parse_transaction_line(LineOf(OtherCommas(src[1])))

\* a strict line with separators and a negative amount has been parsed
C1_Witness ==
    /\ Parsed /\ StrictLine(src[1]) /\ is_valid_transaction_line(lines[1])
    /\ src[1].commas /\ src[1].amount = A_M1234_56 /\ src[1].sep = MaxSep
    /\ call.ret # <<>> /\ call.ret[1].direction = EXPENSE

\* C2 (as stated): in every transaction emitted by any path the stored
\* amount is non-negative, and the direction is income exactly when the
\* amount written in the source line is >= 0, expense exactly when it is < 0.
C2_DirectionFollowsSource ==
    \A k \in 1..Len(transactions) :
        LET t == transactions[k]
            s == src[origin[k].line + 1]
        IN  s.kind = "txn" =>
                /\ GeZero(t.amount)
                /\ t.direction = INCOME  <=> ~ValueOf(s.amount).neg
                /\ t.direction = EXPENSE <=> ValueOf(s.amount).neg

\* C3 (as stated): every transaction in the output carries a valid calendar
\* date; a strict-pattern line whose date token is no calendar date is not
\* emitted by the strict path.
C3_ValidDates ==
    \A k \in 1..Len(transactions) :
        /\ strptime_ok(transactions[k].posting_date)
        /\ transactions[k].date = strftime_ymd(transactions[k].posting_date)

\* C4 (as stated): a validated line without the currency column, parsed by
\* the lenient strategy, yields the amount and the balance written in the
\* line, and the direction of the amount.
C4_LenientRecovers ==
    (Parsed /\ LenientLine(src[1]) /\ call.ret # <<>>) =>
        Recovers(call.ret[1], src[1])

\* the parsed transaction has the type label of transfers, an amount of at
\* least 50,000 and a non-empty counterparty name
LargeTransferCase ==
    /\ Parsed /\ call.ret # <<>>
    /\ call.ret[1].trans_type = T_TRANSFER
    /\ GeInt(call.ret[1].amount, LargeAmount)
    /\ call.ret[1].counterparty_name # <<>>

\* C5 (as stated): a transaction with the type label of transfers, an amount
\* >= 50,000 and a non-empty counterparty is assigned the category
\* largeTransfer.
C5_LargeTransfer ==
    LargeTransferCase => call.ret[1].category = LARGE_TRANSFER

\* C5 (amended): a transaction with the type label of transfers, an amount
\* >= 50,000 and a non-empty counterparty is assigned the category transfer:
\* the keyword of the type label decides before the amount is looked at.
C5_Transfer ==
    LargeTransferCase => call.ret[1].category = categories[1].category

\* the end-to-end line of C5 has been parsed
C5_Witness ==
    /\ LargeTransferCase
    /\ src[1] = Txn(D_20250113, CNY, A_300000_00, A_304294_31, TRUE, 1,
                    T_TRANSFER, N_LIAO_ACCT)
    /\ call.ret[1].category = T_TRANSFER

\* the 13 categories
CategoryNames ==
    {categories[k].category : k \in 1..Len(categories)}
        \cup {LARGE_TRANSFER, CORPORATE, UNKNOWN, TYPE_OTHER}

\* C6: classify_transaction returns, for every triple, one of the 13
\* categories, never None.
C6_Total ==
    /\ Cardinality(CategoryNames) = 13
    /\ Classified => call.ret # <<>> /\ call.ret[1] \in CategoryNames

\* a call that no rule but the last decides
C6_Witness ==
    /\ Classified /\ call.ret = <<TYPE_OTHER>>
    /\ call.args[1] = T_XX /\ call.args[2] = N_LIAO /\ call.args[3] = A_49999_99

\* keyword category k has a keyword in the lower-cased label or name
KeywordHit(k, trans_type, counterparty) ==
    \E j \in 1..Len(categories[k].keywords) :
        \/ Contains(lower(trans_type), categories[k].keywords[j])
        \/ Contains(lower(counterparty), categories[k].keywords[j])

WhitespaceOnly(text) == \A k \in 1..Len(text) : IsSpace(text[k])

\* C7 (as stated): the first keyword category, in declared order, with a
\* keyword in the label or the name wins whatever the amount; with no
\* keyword, amount >= 50,000 and a non-empty counterparty give largeTransfer,
\* else a corporate marker gives corporate, else an empty or whitespace-only
\* counterparty gives unknown, else other.
C7_Priority ==
    Classified =>
        LET trans_type   == call.args[1]
            counterparty == call.args[2]
            hits == {k \in 1..Len(categories) : KeywordHit(k, trans_type, counterparty)}
        IN  call.ret[1] =
                IF hits # {} THEN categories[Min(hits)].category
                ELSE IF GeInt(call.args[3], LargeAmount) /\ counterparty # <<>>
                     THEN LARGE_TRANSFER
                ELSE IF ContainsAny(lower(counterparty), corporate_markers) THEN CORPORATE
                ELSE IF WhitespaceOnly(counterparty) THEN UNKNOWN
                ELSE TYPE_OTHER

\* the five checks of the line validator, each on its own
LongEnough(line)     == Len(strip(line)) >= MinLineLength
NoNoise(line)        == ~ContainsAny(normalize_text(line), skip_keywords)
NotPageNumber(line)  ==
    ~(HasPageNumber(normalize_text(line)) /\ Len(normalize_text(line)) < PageLineLength)
StartsWithDate(line) == LeadingDate(normalize_text(line))
HasAmount(line)      == HasDecimalAmount(normalize_text(line))

\* C8: is_valid_transaction_line returns true exactly when the trimmed line
\* has at least 10 characters, has no denylisted substring, is no short
\* page-number line, starts (normalized) with an 8-digit token and
\* whitespace, and has a decimal amount with two fractional digits.
C8_Conjunctive ==
    Validated =>
        call.ret[1] = (/\ LongEnough(lines[1])
                       /\ NoNoise(lines[1])
                       /\ NotPageNumber(lines[1])
                       /\ StartsWithDate(lines[1])
                       /\ HasAmount(lines[1]))

\* a line that fails only the decimal-amount check has been rejected
C8_Witness ==
    /\ Validated /\ call.ret = <<FALSE>>
    /\ LongEnough(lines[1]) /\ NoNoise(lines[1]) /\ NotPageNumber(lines[1])
    /\ StartsWithDate(lines[1]) /\ ~HasAmount(lines[1])

\* C9 (as stated): no transaction, of the primary pass or of the
\* whole-document fallback, originates from a line the validator rejects.
C9_NoRejectedLine ==
    \A k \in 1..Len(transactions) :
        is_valid_transaction_line(lines[origin[k].line + 1])

\* C9 (amended): no transaction of the primary pass originates from a line
\* the validator rejects (the whole-document fallback does not consult the
\* validator).
C9_NoRejectedLinePrimary ==
    \A k \in 1..Len(transactions) :
        origin[k].path # "fallback" =>
            is_valid_transaction_line(lines[origin[k].line + 1])

\* the primary pass has emitted a transaction and has passed over a later
\* line that starts with a date and that the validator rejects
C9_Witness ==
    /\ pc = "done" /\ transactions # <<>> /\ origin[1].path # "fallback"
    /\ \E j \in 1..Len(lines) :
          /\ j - 1 > origin[Len(origin)].line
          /\ LeadingDate(lines[j])
          /\ ~is_valid_transaction_line(lines[j])

\* the current line of the primary pass follows a line that produced a
\* transaction and does not start with an 8-digit token and whitespace
AfterTransaction ==
    /\ pc = "primary" /\ i < Len(lines)
    /\ prev_line_was_transaction /\ prev_transaction = Len(transactions)
    /\ prev_transaction # 0
    /\ ~LeadingDate(lines[i + 1])

\* C10: in the primary pass, a line that follows a transaction T and does
\* not start with a date is merged into T: its normalized text, preceded by
\* one space, is appended to T's raw counterparty text and counterparty
\* name, no transaction is created, whether or not the validator accepts
\* the line.
C10_ContinuationMerged ==
    [][AfterTransaction =>
          LET T == transactions[Len(transactions)]
              text == <<" ">> \o normalize_text(lines[i + 1])
          IN  /\ i' = i + 1
              /\ Len(transactions') = Len(transactions)
              /\ transactions' = [transactions EXCEPT ![Len(transactions)] =
                    [T EXCEPT !.raw_counterparty  = T.raw_counterparty \o text,
                              !.counterparty_name = T.counterparty_name \o text]]
              /\ origin' = origin]_vars

\* a line the validator rejects has been merged into the transaction of the
\* line before it
C10_Witness ==
    /\ pc = "primary" /\ i = 2 /\ Len(transactions) = 1
    /\ lines[2] = X_CONTINUATION
    /\ ~is_valid_transaction_line(lines[2])
    /\ transactions[1].counterparty_name = N_LIAO \o <<" ">> \o X_CONTINUATION
    /\ transactions[1].raw_counterparty = N_LIAO_ACCT \o <<" ">> \o X_CONTINUATION

\* the transaction as it was created from its source line, before any merge
AsCreated(k) ==
    IF origin[k].path = "fallback"
    THEN fallback_line(lines[origin[k].line + 1])[1]
    ELSE parse_transaction_line(lines[origin[k].line + 1])[1]

\* C11 (as stated): a transaction is modified at most once after its
\* creation: it is as created, or as created with the text of the one line
\* that follows its source line appended.
C11_AtMostOneMerge ==
    \A k \in 1..Len(transactions) :
        \/ transactions[k] = AsCreated(k)
        \/ /\ origin[k].line + 2 <= Len(lines)
           /\ transactions[k] = AppendContinuation(AsCreated(k), lines[origin[k].line + 2])

\* the fields of a transaction that a continuation merge must leave alone
FixedFields(t) ==
    <<t.date, t.weekday, t.posting_date, t.currency, t.amount, t.direction,
      t.direction_zh, t.balance, t.trans_type, t.category, t.counterparty_account>>

\* C12: a step of the primary pass changes no field of an existing
\* transaction but its raw counterparty text and its counterparty name; the
\* category is not derived again from the extended name.
C12_MergeFrame ==
    [][pc = "primary" /\ pc' = "primary" =>
          \A k \in 1..Len(transactions) :
              /\ FixedFields(transactions'[k]) = FixedFields(transactions[k])
              /\ DOMAIN transactions'[k] = DOMAIN transactions[k]]_vars

\* a merge has extended a name with a keyword of another category, and the
\* category is still the one given at creation
C12_Witness ==
    /\ pc = "primary" /\ i = 2 /\ Len(transactions) = 1
    /\ transactions[1].counterparty_name = N_ZHANG \o <<" ">> \o X_CONTINUATION
    /\ transactions[1].category = TYPE_OTHER
    /\ classify_transaction(transactions[1].trans_type,
                            transactions[1].counterparty_name,
                            transactions[1].amount) = T_TRANSFER

\* C13: the whole-document fallback runs exactly when the primary pass ends
\* with no transaction; it starts at the first line of the document, takes
\* the lines one by one and ends after the last; a line gives a transaction
\* only if it matches the strict pattern, and the transaction is appended as
\* the fallback created it (no lenient strategy, no continuation merge).
C13_FallbackIffEmpty ==
    [][/\ (pc = "primary" /\ pc' # "primary") =>
              /\ pc' = "fallback" <=> transactions = <<>>
              /\ pc' = "fallback" => i' = 0 /\ transactions' = <<>>
       /\ (pc = "fallback" /\ pc' = "done") => i = Len(lines) /\ transactions' = transactions
       /\ (pc = "fallback" /\ pc' = "fallback") =>
              /\ i < Len(lines) /\ i' = i + 1
              /\ \/ transactions' = transactions /\ origin' = origin
                 \/ /\ StrictMatch(normalize_text(lines[i + 1])) # <<>>
                    /\ transactions' = Append(transactions, fallback_line(lines[i + 1])[1])
                    /\ origin' = Append(origin, [line |-> i, path |-> "fallback"])]_vars

\* the fallback has run over a document with a line only the lenient
\* strategy can parse, followed by a line that is no transaction, and has
\* emitted the strict line alone, unmerged
C13_Witness ==
    /\ pc = "done" /\ Len(lines) = 3 /\ Len(transactions) = 1
    /\ origin[1] = [line |-> 1, path |-> "fallback"]
    /\ StrictMatch(normalize_text(lines[1])) = <<>>
    /\ parse_transaction_line(lines[1]) # <<>>
    /\ ~LeadingDate(lines[3])
    /\ self_transactions = transactions

\* the line matches the strict pattern and its amount or balance token is
\* no number
UnconvertibleAmount(line) ==
    LET match == StrictMatch(normalize_text(line))
    IN  /\ match # <<>>
        /\ \/ float(clean_amount(match[1].amount_str)) = <<>>
           \/ float(clean_amount(match[1].balance_str)) = <<>>

\* C14: for a line that matches the strict pattern and whose amount or
\* balance token cannot be converted, parse_transaction_line returns no
\* transaction (and so does not hand the line to the lenient strategy).
C14_NoTransaction ==
    (Parsed /\ UnconvertibleAmount(lines[1])) => call.ret = <<>>

\* such a line, which the validator accepts and the lenient strategy would
\* parse, has been given up
C14_Witness ==
    /\ Parsed /\ lines[1] = X_BAD_DOTS /\ UnconvertibleAmount(lines[1])
    /\ is_valid_transaction_line(lines[1])
    /\ parse_transaction_line_lenient(normalize_text(lines[1])) # <<>>
    /\ call.ret = <<>>

TransactionKeys ==
    {"date", "weekday", "posting_date", "currency", "amount", "direction",
     "direction_zh", "balance", "trans_type", "category", "counterparty_name",
     "counterparty_account", "raw_counterparty"}

\* all fields of the transaction are set: the date and the weekday are those
\* of the date token, the texts that every transaction has are non-empty
\* (the counterparty and its account are optional)
Complete(t) ==
    /\ DOMAIN t = TransactionKeys
    /\ strptime_ok(t.posting_date)
    /\ t.date = strftime_ymd(t.posting_date)
    /\ t.weekday = strftime_A(t.posting_date)
    /\ t.currency # <<>> /\ t.trans_type # <<>>
    /\ t.direction \in {INCOME, EXPENSE} /\ t.direction_zh = t.direction
    /\ t.category \in CategoryNames
    /\ DOMAIN t.amount = {"neg", "int", "frac"}
    /\ DOMAIN t.balance = {"neg", "int", "frac"}

\* C15 (as stated): every parsing attempt ends with a complete transaction
\* or with nothing: every transaction in the list, from the strict, the
\* lenient or the fallback scan, has all its fields set.
C15_CompleteOrNothing ==
    \A k \in 1..Len(transactions) : Complete(transactions[k])

\* C16: each source line contributes at most one transaction and the
\* transactions are in the order of their source lines, in the primary pass
\* and in the fallback scan.
C16_InputOrder ==
    /\ Len(origin) = Len(transactions)
    /\ \A k \in 1..Len(transactions) :
          /\ origin[k].line + 1 \in 1..Len(lines)
          /\ transactions[k].posting_date =
                 SubSeq(normalize_text(lines[origin[k].line + 1]), 1, 8)
    /\ \A j, k \in 1..Len(transactions) :
          j < k => origin[j].line < origin[k].line

\* three lines with different dates have given three transactions
C16_Witness ==
    /\ pc = "done" /\ Len(transactions) = 3
    /\ transactions[1].posting_date = D_20250113
    /\ transactions[2].posting_date = D_20251345
    /\ transactions[3].posting_date = D_20250114

\* the call of normalize_text has returned
Normalized == pc = "return" /\ call.fn = "normalize_text"

\* C19 (as stated): normalize_text is idempotent.
C19_Idempotent ==
    Normalized => normalize_text(call.ret[1]) = call.ret[1]

\* C20: normalize_text returns a string no longer than its input, with no
\* whitespace at either end.
C20_NoLonger ==
    Normalized =>
        /\ Len(call.ret[1]) <= Len(call.args[1])
        /\ call.ret[1] # <<>> =>
              ~IsSpace(call.ret[1][1]) /\ ~IsSpace(call.ret[1][Len(call.ret[1])])

\* a text with whitespace, an escape sequence and non-printable characters
\* at both ends has been normalized
C20_Witness ==
    /\ Normalized /\ call.args[1] = X_EDGES /\ call.ret = <<<<"a">>>>

\* the call of detect_bank_type has returned
Detected == pc = "return" /\ call.fn = "detect_bank_type"

\* the keywords of profile p found in the text, whatever the case of either
Hits(p, content) ==
    {k \in 1..Len(bank_keywords[p].keywords) :
        Contains(lower(content), lower(bank_keywords[p].keywords[k]))}

\* profile p scores less than profile q / as much as profile q
LessScore(p, q, content) ==
    Cardinality(Hits(p, content)) * Len(bank_keywords[q].keywords)
        < Cardinality(Hits(q, content)) * Len(bank_keywords[p].keywords)

SameScore(p, q, content) ==
    Cardinality(Hits(p, content)) * Len(bank_keywords[q].keywords)
        = Cardinality(Hits(q, content)) * Len(bank_keywords[p].keywords)

\* the result is profile p with its score, no profile scores more and no
\* earlier profile scores as much
Chosen(p, result, content) ==
    /\ result.bank_type = bank_keywords[p].bank_type
    /\ result.confidence = <<Cardinality(Hits(p, content)), Len(bank_keywords[p].keywords)>>
    /\ Hits(p, content) # {}
    /\ \A q \in 1..Len(bank_keywords) : ~LessScore(p, q, content)
    /\ \A q \in 1..(p - 1) : LessScore(q, p, content)

\* C17: detect_bank_type returns a score in [0,1], the share of the chosen
\* profile's keywords found in the text without regard to case; the chosen
\* profile has the highest score and is the first of those that have it;
\* when no keyword of any profile is found the result is (UNKNOWN, 0).
C17_FirstHighest ==
    Detected =>
        /\ 0 <= call.ret[1].confidence[1]
        /\ call.ret[1].confidence[1] <= call.ret[1].confidence[2]
        /\ IF \A p \in 1..Len(bank_keywords) : Hits(p, call.args[1]) = {}
           THEN call.ret[1].bank_type = "UNKNOWN" /\ call.ret[1].confidence[1] = 0
           ELSE \E p \in 1..Len(bank_keywords) : Chosen(p, call.ret[1], call.args[1])
        /\ bank_type = call.ret[1].bank_type /\ confidence = call.ret[1].confidence

\* a text in upper case with one keyword of each of two profiles of three
\* keywords: the scores tie and the earlier profile has been returned
C17_Witness ==
    /\ Detected
    /\ call.args[1] = W_ABCMB
    /\ SameScore(4, 6, call.args[1]) /\ Hits(4, call.args[1]) # {}
    /\ call.ret[1] = [bank_type |-> "ABC", confidence |-> <<1, 3>>]

\* the list of the primary pass as a function of the lines alone: the list
\* after the lines from index k (0-based) on, given the list ts so far and
\* the transaction prev (0: none) that a line without a date is merged into
RECURSIVE PrimaryFrom(_, _, _, _)
PrimaryFrom(ls, k, ts, prev) ==
    IF k >= Len(ls) THEN ts
    ELSE IF prev # 0 /\ ~LeadingDate(ls[k + 1])
    THEN PrimaryFrom(ls, k + 1, [ts EXCEPT ![prev] = AppendContinuation(@, ls[k + 1])], prev)
    ELSE IF parse_transaction_line(ls[k + 1]) # <<>>
    THEN PrimaryFrom(ls, k + 1, Append(ts, parse_transaction_line(ls[k + 1])[1]), Len(ts) + 1)
    ELSE PrimaryFrom(ls, k + 1, ts, 0)

\* the list of the fallback scan as a function of the lines alone
RECURSIVE FallbackFrom(_, _, _)
FallbackFrom(ls, k, ts) ==
    IF k >= Len(ls) THEN ts
    ELSE IF fallback_line(ls[k + 1]) # <<>>
    THEN FallbackFrom(ls, k + 1, Append(ts, fallback_line(ls[k + 1])[1]))
    ELSE FallbackFrom(ls, k + 1, ts)

OrFallback(primary, ls) ==
    IF primary # <<>> THEN primary ELSE FallbackFrom(ls, 0, <<>>)

\* what parse_transactions leaves in self.transactions, from the lines alone
Output(ls) == OrFallback(PrimaryFrom(ls, find_transaction_start(ls), <<>>, 0), ls)

\* C18: the detected bank type and confidence neither gate nor alter the
\* parse: whatever they are, parse_transactions ends with the list that the
\* lines alone determine, and with the detection result as load_file left it.
C18_BankIndependent ==
    pc = "done" =>
        /\ self_transactions = Output(lines)
        /\ [bank_type |-> bank_type, confidence |-> confidence]
               = detect_bank_type(content_sample(lines))

\* a document that names a bank, and one that names none, has been parsed
C18_Witness ==
    /\ pc = "done" /\ Len(lines) = 2
    /\ lines[1] = X_BANK
    /\ bank_type = "JIUJIANG" /\ confidence = <<1, 2>>
    /\ Len(self_transactions) = 1
    /\ self_transactions = Output(<<lines[2]>>)
    /\ detect_bank_type(content_sample(<<lines[2]>>)).bank_type = "UNKNOWN"

\* the counterparty remainder of a line that matches the strict pattern
Remainder(line) == StrictMatch(normalize_text(line))[1].counterparty

\* the whitespace-separated tokens of a text
Tokens(text) == split(text)

\* the token is a string of 8 to 19 digits
IsAccount(token) == Len(token) \in 8..19 /\ \A k \in 1..Len(token) : IsDigit(token[k])

\* C21: on the strict path, when the counterparty remainder has at least two
\* tokens and the last is 8 to 19 digits, that token is the account and the
\* other tokens joined by single spaces are the name; otherwise the whole
\* remainder is the name and no account is recorded.
C21_LastTokenAccount ==
    (Parsed /\ StrictMatch(normalize_text(lines[1])) # <<>> /\ call.ret # <<>>) =>
        IF Len(Tokens(Remainder(lines[1]))) >= 2
              /\ IsAccount(Tokens(Remainder(lines[1]))[Len(Tokens(Remainder(lines[1])))])
        THEN /\ call.ret[1].counterparty_account
                    = Tokens(Remainder(lines[1]))[Len(Tokens(Remainder(lines[1])))]
             /\ call.ret[1].counterparty_name
                    = join(SubSeq(Tokens(Remainder(lines[1])), 1,
                                  Len(Tokens(Remainder(lines[1]))) - 1))
        ELSE /\ call.ret[1].counterparty_account = <<>>
             /\ call.ret[1].counterparty_name = Remainder(lines[1])

\* a remainder of three tokens whose last has 8 digits has been split
C21_Witness ==
    /\ Parsed /\ lines[1] = X_ACCT_8 /\ call.ret # <<>>
    /\ call.ret[1].counterparty_name = N_LIAO \o <<" ">> \o N_ZHANG
    /\ call.ret[1].counterparty_account = <<"1","2","3","4","5","6","7","8">>

\* the call of parse_counterparty_info has returned
CounterpartySplit == pc = "return" /\ call.fn = "parse_counterparty_info"

\* the first class of account_patterns, in order, that has a match in the
\* text; 0 when none has
FirstClass(text) ==
    IF DigitWordStarts(text, 16, 19) # {} THEN 1
    ELSE IF DigitWordStarts(text, 12, 15) # {} THEN 2
    ELSE IF DigitWordStarts(text, 8, 11) # {} THEN 3
    ELSE 0

\* the text without the one run of word characters that starts at b
RemoveOne(text, b) == KeepAt(text, (1..Len(text)) \ (b..Span(text, b, "\\w")))

\* the result the claim describes for a normalized text with a match in
\* class k
OneRemoved(text, lo, hi) ==
    [name    |-> RemoveTrailingSeparators(strip(RemoveOne(text, Min(DigitWordStarts(text, lo, hi))))),
     account |-> FirstDigitWord(text, lo, hi)]

\* C22 (as stated): parse_counterparty_info returns the first digit run of
\* the first class (16-19, 12-15, 8-11 digits) that has a match as the
\* account, and as the name the text with only that one run removed and
\* trailing separators trimmed; (text, None) when no class has a match and
\* ("", None) for the empty text.
C22_OnlyAccountRemoved ==
    CounterpartySplit =>
        IF call.args[1] = <<>> THEN call.ret[1] = [name |-> <<>>, account |-> None]
        ELSE IF FirstClass(normalize_text(call.args[1])) = 0
        THEN call.ret[1] = [name |-> normalize_text(call.args[1]), account |-> None]
        ELSE call.ret[1] =
                 OneRemoved(normalize_text(call.args[1]),
                            account_patterns[FirstClass(normalize_text(call.args[1]))][1],
                            account_patterns[FirstClass(normalize_text(call.args[1]))][2])

\* the token is written in parentheses or carries a CR marker
Marked(token) ==
    \/ Len(token) >= 2 /\ token[1] = "(" /\ token[Len(token)] = ")"
    \/ Contains(token, <<"C", "R">>) \/ Contains(token, <<"c", "r">>)

\* the line is written date, currency, amount, balance, type, counterparty
\* and its amount or its balance is marked
MarkedLine(line) ==
    /\ Len(split(line)) >= 6
    /\ Marked(split(line)[3]) \/ Marked(split(line)[4])

\* the signed amount of a transaction
SignedAmount(t) == [t.amount EXCEPT !.neg = (t.direction = EXPENSE)]

\* the transaction has the values safe_float gives the two tokens of the line
AsSafeFloat(result, line) ==
    /\ result # <<>>
    /\ NumEq(SignedAmount(result[1]), safe_float(split(line)[3]))
    /\ NumEq(result[1].balance, safe_float(split(line)[4]))

\* C23 (as stated): a line whose amount or balance is written in
\* parentheses or with a CR marker gives, under parse_transaction_line and
\* under the lenient strategy alone, the signed amount and the balance that
\* safe_float gives for the two tokens.
C23_MarkedAmounts ==
    (Parsed /\ MarkedLine(lines[1])) =>
        /\ AsSafeFloat(call.ret, lines[1])
        /\ AsSafeFloat(parse_transaction_line_lenient(normalize_text(lines[1])), lines[1])

\* the 1-based positions of the header rows and of the lines that start
\* with a date and hold an amount with two decimals
HeaderRows(ls) ==
    {k \in 1..Len(ls) :
        /\ Contains(ls[k], HEADER_DATE) \/ Contains(ls[k], HEADER_DATE_EN)
        /\ Contains(ls[k], HEADER_AMOUNT) \/ Contains(ls[k], HEADER_AMOUNT_EN)}

DataRows(ls) ==
    {k \in 1..Len(ls) :
        LeadingDate(normalize_text(ls[k])) /\ HasDecimalAmount(normalize_text(ls[k]))}

\* the start offset (0-based) the claim describes
Offset(ls) ==
    IF HeaderRows(ls) # {} THEN Min(HeaderRows(ls))
    ELSE IF DataRows(ls) # {} THEN Min(DataRows(ls)) - 1
    ELSE 0

\* C24: the primary pass starts at the start offset (just after the first
\* header row, else at the first line with a date and a two-decimal amount,
\* else 0) and parses no earlier line: a transaction from a line before the
\* offset comes from the whole-document fallback.
C24_StartOffset ==
    \A offset \in {Offset(lines)} :
        /\ pc = "primary" =>
              /\ i >= offset
              /\ (i > offset /\ offset < Len(lines)
                     /\ parse_transaction_line(lines[offset + 1]) # <<>>)
                 => \E k \in 1..Len(origin) : origin[k].line = offset
        /\ \A k \in 1..Len(origin) :
              origin[k].line < offset => origin[k].path = "fallback"

\* a transaction line stands before the header row and another after it;
\* the pass has ended with the second alone
C24_Witness ==
    /\ pc = "done" /\ Len(lines) = 3
    /\ parse_transaction_line(lines[1]) # <<>>
    /\ lines[2] = X_HEADER
    /\ Len(transactions) = 1 /\ origin[1].line = 2 /\ origin[1].path = "strict"

\* the lines after the source line of transaction k and before the current
\* line all lack a leading date (they are the run of its continuations)
RunSince(k) ==
    \A j \in (origin[k].line + 2)..i : ~LeadingDate(lines[j])

\* C25: a step of the primary pass changes an existing transaction only if
\* it is the last one and every line since its source line was a
\* continuation; once a line has failed to parse, a line without a leading
\* date changes no transaction and adds none unless it parses itself.
C25_OnlyPrecedingRun ==
    [][(pc = "primary" /\ pc' = "primary") =>
          /\ \A k \in 1..Len(transactions) :
                transactions'[k] # transactions[k] =>
                    k = Len(transactions) /\ RunSince(k) /\ ~LeadingDate(lines[i + 1])
          /\ (prev_transaction = 0 /\ i < Len(lines) /\ ~LeadingDate(lines[i + 1])) =>
                /\ SubSeq(transactions', 1, Len(transactions)) = transactions
                /\ parse_transaction_line(lines[i + 1]) = <<>> => transactions' = transactions
                /\ prev_transaction' = 0 \/ parse_transaction_line(lines[i + 1]) # <<>>]_vars

\* a transaction, then a dated line that fails to parse, then a line
\* without a date: the pass is over and the transaction is as created
C25_Witness ==
    /\ pc = "primary" /\ i = 3 /\ Len(lines) = 3
    /\ LeadingDate(lines[2]) /\ parse_transaction_line(lines[2]) = <<>>
    /\ lines[3] = X_CONTINUATION
    /\ Len(transactions) = 1 /\ origin[1].line = 0
    /\ transactions[1] = parse_transaction_line(lines[1])[1]
    /\ prev_transaction = 0

\* the call of load_file has returned
Loaded == pc = "return" /\ call.fn = "load_file"

\* C26 (as stated): after a successful load of a file of n non-empty lines
\* separated by line feeds, the line list has n entries, the k-th being the
\* k-th line of the file.
C26_LineStructure ==
    (Loaded /\ call.ret = <<TRUE>>) =>
        /\ Len(lines) = Len(src)
        /\ \A k \in 1..Len(src) : lines[k] = clean_text(LineOf(src[k]))

\* the call of _process_ai_response has returned
Processed == pc = "return" /\ call.fn = "_process_ai_response"

\* the processed response keeps the lines of code blocks, fence lines
\* included, and every heading outside them has a level within lo..hi
LevelsWithin(out, in, lo, hi) ==
    /\ Len(out) = Len(in)
    /\ \A k \in 1..Len(out) :
          IF IsFence(in[k]) \/ InCodeBlock(in, k)
          THEN out[k] = in[k]
          ELSE HeadingMatch(out[k]) # <<>> =>
                  HeadingMatch(out[k])[1].level \in lo..hi

\* C27 (as stated): in the smart_compress and remap modes, with
\* ai_min_level <= ai_max_level, every heading of the processed response
\* outside code blocks has a level from ai_min_level to ai_max_level, and
\* the lines of code blocks are emitted unchanged.
C27_LevelsInRange ==
    (Processed /\ config.ai_processing \in {"smart_compress", "remap"}
               /\ config.ai_min_level <= config.ai_max_level) =>
        LevelsWithin(SplitLF(call.ret[1]), lines, config.ai_min_level, config.ai_max_level)

\* the call of detect_dialogs has returned
Partitioned == pc = "return" /\ call.fn = "detect_dialogs"

\* the indices (1-based) of the dialog headings of the document
DialogHeadings == {k \in 1..Len(lines) : IsDialogHeading(lines[k])}

\* the lines of the dialogs' contents, one dialog after the other
RECURSIVE ContentLines(_)
ContentLines(dialogs) ==
    IF dialogs = <<>> THEN <<>>
    ELSE SplitLF(dialogs[1].content) \o ContentLines(Tail(dialogs))

\* C28 (as stated): on a document with at least one dialog heading, the
\* dialogs' contents, one after the other, are the lines of the document
\* from the first dialog heading to the end.
C28_NoContentLost ==
    (Partitioned /\ DialogHeadings # {}) =>
        ContentLines(call.ret[1]) = SubSeq(lines, Min(DialogHeadings), Len(lines))

\* the call of _process_instruction_smart has returned
Split == pc = "return" /\ call.fn = "_process_instruction_smart"

\* C29 (as stated): for every block and tolerance, the instruction lines
\* followed by the response lines are the lines of the block in their
\* order.
C29_PrefixAndSuffix ==
    Split => call.ret[1].instruction_lines \o call.ret[1].response_lines = lines

\* process is called on an input file that exists
ProcessExisting == pc = "main" /\ i < Len(call.args) /\ call.args[i + 1] \in DOMAIN files

\* C30 (as stated): each call of process on an existing input file takes
\* the output path derived from its own input file name; when nothing is
\* at that path yet the call is not blocked and writes its result there,
\* and no other file is changed.
C30_OwnOutputPath ==
    [][ProcessExisting =>
          \E own \in {OutputPath(call.args[i + 1], config)} :
              /\ config'.output_file = own
              /\ own \notin DOMAIN files =>
                    files' = Written(files, own, Organized(call.args[i + 1]))]_vars

====
